---- MODULE Spec2Model ----
(***************************************************************************)
(* qvm: the on-disk lifecycle of VM definitions (create, liveness check,    *)
(* delete).  The state is the filesystem under the storage root, the OS     *)
(* process table, the host's hypervisor/firmware installation, and the      *)
(* record of the last operation.  Paths are sequences of components; text   *)
(* read from a file or from the operator is a sequence of characters.       *)
(***************************************************************************)
EXTENDS Integers, Sequences, FiniteSets, TLC

VARIABLES fs, live, host, stdin, nextUuid, res

vars == <<fs, live, host, stdin, nextUuid, res>>

(***************************************************************************)
(* Bounds of the model.                                                     *)
(***************************************************************************)
\* longest vm.pid content drawn in the liveness specification
MaxPidLen == 3
\* longest operator response drawn in the confirmation specification
MaxInputLen == 3
\* how many descriptors may be generated in one behaviour (fresh uuids)
MaxCreates == 2
\* largest value drawn for an optional topology input (0..MaxCount)
MaxCount == 2

\* the longest path, in components, handed to the path functions
MaxPathLen == 2

(***************************************************************************)
(* Option<T>: None is the empty tuple, Some(x) the one-element tuple.       *)
(***************************************************************************)
None == <<>>

Some(x) == <<x>>

IsSome(o) == Len(o) = 1

UnwrapOr(o, d) == IF IsSome(o) THEN o[1] ELSE d

(***************************************************************************)
(* Paths (std::path): a sequence of components, absolute when the first     *)
(* component is the root "/".                                               *)
(***************************************************************************)
IsAbsolute(p) == Len(p) > 0 /\ p[1] = "/"

\* Path::join: an absolute argument replaces the receiver
Join(base, p) == IF IsAbsolute(p) THEN p ELSE base \o p

IsPrefix(p, q) == Len(p) <= Len(q) /\ SubSeq(q, 1, Len(p)) = p

Front(s) == SubSeq(s, 1, Len(s) - 1)

Last(s) == s[Len(s)]

\* the home directory dirs::home_dir() reports, when it reports one
HomeDir == <<"/", "home", "u">>

\* qvm_home(): Ok(<home>/qvm), or the error when no home directory is found
QvmHomeOk == host.home

QvmHome == Join(HomeDir, <<"qvm">>)

\* format!("{}.qvm", name) read as a path: a VM name is text, given here split
\* at its separators; the suffix lands on the last component
NameDotQvm(name) == Front(name) \o <<Last(name) \o ".qvm">>

\* qvm_home()?.join(format!("{name}.qvm"))
VmRoot(name) == Join(QvmHome, NameDotQvm(name))

\* a resolution that appends whatever it is given
ResolveAppend(root, p) == root \o p

resolve_under_root(root, p) == IF IsAbsolute(p) THEN p ELSE Join(root, p)

conf_path(root) == Join(root, <<"vm.json">>)

PidFile(root) == Join(root, <<"vm.pid">>)

(***************************************************************************)
(* The filesystem: a function from the paths that exist to their node.      *)
(***************************************************************************)
DirNode == [kind |-> "dir", data |-> <<>>]

FileNode(d) == [kind |-> "file", data |-> d]

Exists(f, p) == p \in DOMAIN f

IsFile(f, p) == Exists(f, p) /\ f[p].kind = "file"

IsDir(f, p) == Exists(f, p) /\ f[p].kind = "dir"

\* the proper and improper prefixes of p below (and excluding) the root "/"
Ancestors(p) == { SubSeq(p, 1, k) : k \in 2..Len(p) }

\* fs::create_dir_all: every missing ancestor and the directory itself
CreateDirAll(f, p) ==
    [q \in DOMAIN f \cup Ancestors(p) |-> IF q \in DOMAIN f THEN f[q] ELSE DirNode]

\* File::create + write, or an external tool writing a file
WriteFile(f, p, d) ==
    [q \in DOMAIN f \cup {p} |-> IF q = p THEN FileNode(d) ELSE f[q]]

\* fs::remove_file
RemoveFile(f, p) == [q \in DOMAIN f \ {p} |-> f[q]]

\* fs::remove_dir, were it to succeed on a directory that is not empty: a
\* faulty removal, set against RemoveDirAll
RemoveDirOnly(f, p) == [q \in DOMAIN f \ {p} |-> f[q]]

\* fs::remove_dir_all: the directory and everything below it
RemoveDirAll(f, p) == [q \in { r \in DOMAIN f : ~IsPrefix(p, r) } |-> f[q]]

\* the part of the filesystem at and below p
Tree(f, p) == [q \in { r \in DOMAIN f : IsPrefix(p, r) } |-> f[q]]

(***************************************************************************)
(* Text: str::trim, str::to_lowercase, str::parse::<u32>.                   *)
(***************************************************************************)
WhiteSpace == {" "}

\* a byte that is not valid UTF-8: fs::read_to_string fails on a file holding it
BadByte == "\\xff"

Digits == {"0", "1", "2", "3", "4", "5", "6", "7", "8", "9"}

DigitVal(c) ==
    CASE c = "0" -> 0 [] c = "1" -> 1 [] c = "2" -> 2 [] c = "3" -> 3
      [] c = "4" -> 4 [] c = "5" -> 5 [] c = "6" -> 6 [] c = "7" -> 7
      [] c = "8" -> 8 [] c = "9" -> 9

RECURSIVE TrimStart(_)
TrimStart(s) ==
    IF Len(s) > 0 /\ s[1] \in WhiteSpace THEN TrimStart(Tail(s)) ELSE s

RECURSIVE TrimEnd(_)
TrimEnd(s) ==
    IF Len(s) > 0 /\ Last(s) \in WhiteSpace THEN TrimEnd(Front(s)) ELSE s

Trim(s) == TrimEnd(TrimStart(s))

LowerChar(c) ==
    CASE c = "Y" -> "y" [] c = "E" -> "e" [] c = "S" -> "s" [] c = "N" -> "n"
      [] OTHER -> c

ToLowercase(s) == [i \in 1..Len(s) |-> LowerChar(s[i])]

\* a decimal numeral without its leading zeros ("0" stays "0"): the value a
\* digit string denotes, and what u32::to_string prints for it
RECURSIVE Canonical(_)
Canonical(s) == IF Len(s) > 1 /\ s[1] = "0" THEN Canonical(Tail(s)) ELSE s

\* a <= b for canonical numerals of the same length
RECURSIVE LeqSameLen(_, _)
LeqSameLen(a, b) ==
    IF Len(a) = 0 THEN TRUE
    ELSE IF DigitVal(a[1]) # DigitVal(b[1]) THEN DigitVal(a[1]) < DigitVal(b[1])
    ELSE LeqSameLen(Tail(a), Tail(b))

\* u32::MAX = 4294967295
U32Max == <<"4", "2", "9", "4", "9", "6", "7", "2", "9", "5">>

FitsU32(n) == Len(n) < Len(U32Max) \/ (Len(n) = Len(U32Max) /\ LeqSameLen(n, U32Max))

\* str::parse::<u32>: an optional "+", then one or more decimal digits, the
\* value within u32; anything else (empty, a sign alone, "-", a letter, inner
\* whitespace, overflow) is an error, given as None.  The value is kept as its
\* canonical numeral.
ParseU32(s) ==
    LET body == IF Len(s) > 0 /\ s[1] = "+" THEN Tail(s) ELSE s
    IN  IF Len(body) > 0 /\ (\A i \in 1..Len(body) : body[i] \in Digits)
           /\ FitsU32(Canonical(body))
        THEN Some(Canonical(body))
        ELSE None

(***************************************************************************)
(* Errors: a tuple whose first entry is the kind, the rest what the message *)
(* names.                                                                   *)
(***************************************************************************)
NoErr == <<"none">>

ErrNoHome == <<"no home directory found">>

\* anyhow!("VM '{}' not found in {}", name, qvm_home.display())
ErrNotFound(name) == <<"VM not found", name, QvmHome>>

\* anyhow!("Cannot delete VM '{}': VM is currently running. ...")
ErrRunning(name) == <<"VM is currently running", name>>

\* an std::io::Error or serde_json::Error passed on by `?`
ErrIo(what) == <<"io", what>>

ErrParse == <<"json">>

(***************************************************************************)
(* utils/paths.rs: find_vm_dir                                              *)
(***************************************************************************)
\* a faulty find_vm_dir that does not look at the disk
FindVmDirBlind(f, name) ==
    IF ~QvmHomeOk THEN [ok |-> FALSE, val |-> <<>>, err |-> ErrNoHome]
    ELSE [ok |-> TRUE, val |-> VmRoot(name), err |-> NoErr]

\* Ok(vm_dir) or Err: [ok, val, err]
find_vm_dir(f, name) ==
    IF ~QvmHomeOk THEN [ok |-> FALSE, val |-> <<>>, err |-> ErrNoHome]
    ELSE IF ~Exists(f, VmRoot(name))
         THEN [ok |-> FALSE, val |-> <<>>, err |-> ErrNotFound(name)]
         ELSE [ok |-> TRUE, val |-> VmRoot(name), err |-> NoErr]

(***************************************************************************)
(* utils/system.rs: is_vm_running.  psOk: the `ps` command could be run;    *)
(* its exit status is success exactly when the process table has the pid.   *)
(* A process id is the numeral `ps -p` is given.                            *)
(* The result is the returned value ("true", "false" or "err") with the     *)
(* filesystem the call leaves.                                              *)
(***************************************************************************)
\* fs::read_to_string: the text, or None when the file is not valid UTF-8
ReadToString(f, p) ==
    IF IsFile(f, p) /\ (\A i \in 1..Len(f[p].data) : f[p].data[i] # BadByte)
    THEN Some(f[p].data)
    ELSE None

\* a faulty query that reports every process id as present
ProcessAlways(pid) == TRUE

\* Command::new("ps").args(["-p", pid]).output()?.status.success()
ProcessExists(pid) == pid \in live

\* a faulty is_vm_running that removes the marker whenever no pid comes out of it
IsVmRunningSweeps(f, name, psOk) ==
    LET dir == find_vm_dir(f, name)
        pidFile == PidFile(dir.val)
        text == ReadToString(f, pidFile)
        pid == ParseU32(Trim(text[1]))
    IN  IF ~dir.ok THEN [ret |-> "err", err |-> dir.err, fs |-> f]
        ELSE IF ~Exists(f, pidFile) THEN [ret |-> "false", err |-> NoErr, fs |-> f]
        ELSE IF ~IsSome(text) \/ ~IsSome(pid)
             THEN [ret |-> "false", err |-> NoErr,
                   fs |-> IF IsFile(f, pidFile) THEN RemoveFile(f, pidFile) ELSE f]
        ELSE IF ~psOk THEN [ret |-> "err", err |-> ErrIo("ps"), fs |-> f]
        ELSE [ret |-> IF ProcessExists(pid[1]) THEN "true" ELSE "false",
              err |-> NoErr, fs |-> f]

is_vm_running(f, name, psOk) ==
    LET dir == find_vm_dir(f, name)
        pidFile == PidFile(dir.val)
        text == ReadToString(f, pidFile)
        pid == ParseU32(Trim(text[1]))
    IN  IF ~dir.ok THEN [ret |-> "err", err |-> dir.err, fs |-> f]
        ELSE IF ~Exists(f, pidFile) THEN [ret |-> "false", err |-> NoErr, fs |-> f]
        ELSE IF ~IsSome(text)
             THEN \* cannot read the marker: assume it is stale, remove it
                  [ret |-> "false", err |-> NoErr,
                   fs |-> IF IsFile(f, pidFile) THEN RemoveFile(f, pidFile) ELSE f]
        ELSE IF ~IsSome(pid) THEN [ret |-> "false", err |-> NoErr, fs |-> f]
        ELSE IF ~psOk THEN [ret |-> "err", err |-> ErrIo("ps"), fs |-> f]
        ELSE [ret |-> IF ProcessExists(pid[1]) THEN "true" ELSE "false",
              err |-> NoErr, fs |-> f]

(***************************************************************************)
(* config/schema.rs: VmConfig, and vm/config.rs: save_conf, load_conf.      *)
(* A vm.json file holds the serde_json text of the descriptor, given here   *)
(* as the sequence of its <<key, value>> members in declaration order.      *)
(***************************************************************************)
FieldKeys ==
    <<"meta.version", "meta.generated", "meta.name", "meta.arch", "meta.uuid",
      "paths.root", "paths.disk", "paths.efi_vars",
      "hardware.cpu_model", "hardware.sockets", "hardware.cores",
      "hardware.threads", "hardware.mem_mb", "hardware.machine",
      "hardware.accel", "hardware.mac",
      "firmware.code", "firmware.vars_template",
      "network.mode", "network.bridge_if", "network.forwards.ssh",
      "network.forwards.meye",
      "display.mode", "display.vnc", "display.spice">>

\* serde_json::to_writer_pretty(f, cfg)
Serialize(cfg) ==
    << <<"meta.version", cfg.meta.version>>,
       <<"meta.generated", cfg.meta.generated>>,
       <<"meta.name", cfg.meta.name>>,
       <<"meta.arch", cfg.meta.arch>>,
       <<"meta.uuid", cfg.meta.uuid>>,
       <<"paths.root", cfg.paths.root>>,
       <<"paths.disk", cfg.paths.disk>>,
       <<"paths.efi_vars", cfg.paths.efi_vars>>,
       <<"hardware.cpu_model", cfg.hardware.cpu_model>>,
       <<"hardware.sockets", cfg.hardware.sockets>>,
       <<"hardware.cores", cfg.hardware.cores>>,
       <<"hardware.threads", cfg.hardware.threads>>,
       <<"hardware.mem_mb", cfg.hardware.mem_mb>>,
       <<"hardware.machine", cfg.hardware.machine>>,
       <<"hardware.accel", cfg.hardware.accel>>,
       <<"hardware.mac", cfg.hardware.mac>>,
       <<"firmware.code", cfg.firmware.code>>,
       <<"firmware.vars_template", cfg.firmware.vars_template>>,
       <<"network.mode", cfg.network.mode>>,
       <<"network.bridge_if", cfg.network.bridge_if>>,
       <<"network.forwards.ssh", cfg.network.forwards.ssh>>,
       <<"network.forwards.meye", cfg.network.forwards.meye>>,
       <<"display.mode", cfg.display.mode>>,
       <<"display.vnc", cfg.display.vnc>>,
       <<"display.spice", cfg.display.spice>> >>

HasKey(data, k) == \E i \in 1..Len(data) : data[i][1] = k

Member(data, k) == data[CHOOSE i \in 1..Len(data) : data[i][1] = k][2]

\* a faulty reader that takes the socket count as a non-zero number
ParsesNonZero(data) ==
    /\ \A j \in 1..Len(FieldKeys) : HasKey(data, FieldKeys[j])
    /\ Member(data, "hardware.sockets") >= 1

\* serde_json::from_reader: every member of every struct is required
Parses(data) == \A j \in 1..Len(FieldKeys) : HasKey(data, FieldKeys[j])

Deserialize(data) ==
    [meta |-> [version |-> Member(data, "meta.version"),
               generated |-> Member(data, "meta.generated"),
               name |-> Member(data, "meta.name"),
               arch |-> Member(data, "meta.arch"),
               uuid |-> Member(data, "meta.uuid")],
     paths |-> [root |-> Member(data, "paths.root"),
                disk |-> Member(data, "paths.disk"),
                efi_vars |-> Member(data, "paths.efi_vars")],
     hardware |-> [cpu_model |-> Member(data, "hardware.cpu_model"),
                   sockets |-> Member(data, "hardware.sockets"),
                   cores |-> Member(data, "hardware.cores"),
                   threads |-> Member(data, "hardware.threads"),
                   mem_mb |-> Member(data, "hardware.mem_mb"),
                   machine |-> Member(data, "hardware.machine"),
                   accel |-> Member(data, "hardware.accel"),
                   mac |-> Member(data, "hardware.mac")],
     firmware |-> [code |-> Member(data, "firmware.code"),
                   vars_template |-> Member(data, "firmware.vars_template")],
     network |-> [mode |-> Member(data, "network.mode"),
                  bridge_if |-> Member(data, "network.bridge_if"),
                  forwards |-> [ssh |-> Member(data, "network.forwards.ssh"),
                                meye |-> Member(data, "network.forwards.meye")]],
     display |-> [mode |-> Member(data, "display.mode"),
                  vnc |-> Member(data, "display.vnc"),
                  spice |-> Member(data, "display.spice")]]

\* a faulty save that writes the descriptor under another file name
SaveConfElsewhere(f, cfg, how) ==
    [ok |-> how = "ok", err |-> IF how = "ok" THEN NoErr ELSE ErrIo("write"),
     fs |-> WriteFile(f, Join(cfg.paths.root, <<"config.json">>), Serialize(cfg))]

\* save_conf: File::create(conf_path(&cfg.paths.root)) truncates the file, then
\* the text is written.  how: "ok", "nocreate" (the file cannot be created) or
\* "trunc" (created, the write fails: an empty file stays behind)
save_conf(f, cfg, how) ==
    LET p == conf_path(cfg.paths.root)
    IN  CASE how = "ok" -> [ok |-> TRUE, err |-> NoErr,
                            fs |-> WriteFile(f, p, Serialize(cfg))]
          [] how = "trunc" -> [ok |-> FALSE, err |-> ErrIo("write"),
                               fs |-> WriteFile(f, p, <<>>)]
          [] OTHER -> [ok |-> FALSE, err |-> ErrIo("create"), fs |-> f]

\* a faulty load that takes any vm.json, whatever it holds
LoadConfLenient(f, root) ==
    IF ~IsFile(f, conf_path(root)) THEN [ok |-> FALSE, err |-> ErrIo("open")]
    ELSE [ok |-> TRUE, err |-> NoErr]

\* load_conf_from_dir: File::open(conf_path(vm_dir))?, serde_json::from_reader(f)?
load_conf_from_dir(f, root) ==
    IF ~IsFile(f, conf_path(root)) THEN [ok |-> FALSE, err |-> ErrIo("open")]
    ELSE IF ~Parses(f[conf_path(root)].data) THEN [ok |-> FALSE, err |-> ErrParse]
    ELSE [ok |-> TRUE, err |-> NoErr]

\* load_conf: the root is computed from the name again
load_conf(f, name) ==
    IF ~QvmHomeOk THEN [ok |-> FALSE, err |-> ErrNoHome]
    ELSE load_conf_from_dir(f, VmRoot(name))

\* the descriptor load_conf returns when it succeeds
LoadedConf(f, name) == Deserialize(f[conf_path(VmRoot(name))].data)

(***************************************************************************)
(* The host installation: which files and directories of the hypervisor     *)
(* and its firmware exist (host.files, host.dirs), what the executable      *)
(* search path resolves a bare name to (host.which, pairs <<name, path>>),  *)
(* what symlinks canonicalize to (host.links, pairs <<path, real path>>),   *)
(* and the entries of /nix/store in read_dir order (host.store).            *)
(***************************************************************************)
SupportedArchs == {"aarch64", "x86_64"}

HostIsFile(p) == p \in host.files

HostIsDir(p) == p \in host.dirs

SysBinDir == <<"/", "run", "current-system", "sw", "bin">>

SysShare == <<"/", "run", "current-system", "sw", "share", "qemu">>

ProfileShare == <<"/", "nix", "var", "nix", "profiles", "system", "sw", "share", "qemu">>

NixStore == <<"/", "nix", "store">>

ExeName(arch) == "qemu-system-" \o arch

ErrUnsupportedArch(arch) == <<"Unsupported arch", arch>>

ErrBinNotFound(arch) == <<"qemu-system not found (Nix)", arch>>

ErrFirmwareNotFound(arch) == <<"UEFI firmware not found in Nix paths", arch>>

\* which::which(c).unwrap_or_else(|_| PathBuf::from(c))
Which(c) ==
    IF \E w \in host.which : w[1] = c
    THEN (CHOOSE w \in host.which : w[1] = c)[2]
    ELSE <<c>>

\* the candidates of pick_qemu_bin, each already turned into the path probed
BinCandidates(arch) == <<Join(SysBinDir, <<ExeName(arch)>>), Which(ExeName(arch))>>

\* pick_qemu_bin without its `other => Err(..)` arm
PickAnyArch(arch) ==
    LET c == BinCandidates(arch)
        hits == { i \in 1..Len(c) : HostIsFile(c[i]) }
    IN  IF hits = {}
        THEN [ok |-> FALSE, val |-> <<>>, err |-> ErrBinNotFound(arch)]
        ELSE [ok |-> TRUE, err |-> NoErr,
              val |-> c[CHOOSE i \in hits : \A j \in hits : i <= j]]

pick_qemu_bin(arch) ==
    IF arch \notin SupportedArchs
    THEN [ok |-> FALSE, val |-> <<>>, err |-> ErrUnsupportedArch(arch)]
    ELSE LET c == BinCandidates(arch)
             hits == { i \in 1..Len(c) : HostIsFile(c[i]) }
         IN  IF hits = {}
             THEN [ok |-> FALSE, val |-> <<>>, err |-> ErrBinNotFound(arch)]
             ELSE [ok |-> TRUE, err |-> NoErr,
                   val |-> c[CHOOSE i \in hits : \A j \in hits : i <= j]]

\* Path::canonicalize().unwrap_or_else(|_| qemu_bin.to_path_buf())
Canonicalize(p) ==
    IF \E l \in host.links : l[1] = p
    THEN (CHOOSE l \in host.links : l[1] = p)[2]
    ELSE p

\* the file names that begin with "qemu-system-" on the hosts considered
ExeSuffixes == {"", "-unwrapped"}

StartsWithQemuSystem(c) ==
    \E a \in SupportedArchs, x \in ExeSuffixes : c = ExeName(a) \o x

\* what follows "qemu-system-<arch>" in component c, None if c does not begin so
RestAfterExe(c, arch) ==
    IF \E x \in ExeSuffixes : c = ExeName(arch) \o x
    THEN Some(CHOOSE x \in ExeSuffixes : c = ExeName(arch) \o x)
    ELSE None

\* bin_str.contains("/bin/qemu-system-")
ContainsBinQemuSystem(p) ==
    \E i \in 2..(Len(p) - 1) : p[i] = "bin" /\ StartsWithQemuSystem(p[i + 1])

\* bin_str.replace("/bin/qemu-system-<arch>", "/share/qemu"), from component i on:
\* every "bin" that follows a separator and is followed by a component that
\* begins with the executable's name, left to right
RECURSIVE ReplaceFrom(_, _, _)
ReplaceFrom(p, i, arch) ==
    IF i > Len(p) THEN <<>>
    ELSE IF i >= 2 /\ i < Len(p) /\ p[i] = "bin" /\ IsSome(RestAfterExe(p[i + 1], arch))
         THEN <<"share", "qemu" \o RestAfterExe(p[i + 1], arch)[1]>>
              \o ReplaceFrom(p, i + 2, arch)
         ELSE <<p[i]>> \o ReplaceFrom(p, i + 1, arch)

ReplaceBinExe(p, arch) == ReplaceFrom(p, 1, arch)

\* Path::parent
Parent(p) == IF Len(p) = 0 \/ p = <<"/">> THEN None ELSE Some(Front(p))

derived_share(qemu_bin, arch) ==
    LET bin_real == Canonicalize(qemu_bin)
        up1 == Parent(qemu_bin)
        up2 == IF IsSome(up1) THEN Parent(up1[1]) ELSE None
    IN  IF ContainsBinQemuSystem(bin_real)
        THEN IF arch = "aarch64" THEN ReplaceBinExe(bin_real, "aarch64")
             ELSE ReplaceBinExe(bin_real, "x86_64")
        ELSE IF IsSome(up2) THEN Join(up2[1], <<"share", "qemu">>) ELSE SysShare

\* the name of a /nix/store entry contains "-qemu-"
ContainsQemu(entry) == entry \in {"h1-qemu-9", "h2-qemu-8"}

\* the /nix/store/*-qemu-*/share/qemu directories, in read_dir order
RECURSIVE StoreDirs(_)
StoreDirs(entries) ==
    IF Len(entries) = 0 THEN <<>>
    ELSE LET q == Join(NixStore, <<entries[1], "share", "qemu">>)
         IN  (IF ContainsQemu(entries[1]) /\ HostIsDir(q) THEN <<q>> ELSE <<>>)
             \o StoreDirs(Tail(entries))

FirmwareDirs(qemu_bin, arch) ==
    <<derived_share(qemu_bin, arch), SysShare, ProfileShare>> \o StoreDirs(host.store)

FirmwarePairs(arch) ==
    CASE arch = "aarch64" ->
           << <<"edk2-aarch64-code.fd", "edk2-arm-vars.fd">>,
              <<"edk2-aarch64-code.fd", "edk2-aarch64-vars.fd">> >>
      [] arch = "x86_64" ->
           << <<"OVMF_CODE.fd", "OVMF_VARS.fd">>,
              <<"edk2-x86_64-code.fd", "edk2-x86_64-vars.fd">>,
              <<"edk2-x86_64-code.fd", "edk2-i386-vars.fd">> >>
      [] OTHER -> <<>>

\* the loops of locate_firmware_from_qemu nested the other way round: pairs
\* outermost, directories innermost
FirstFirmwarePairsOuter(dirs, pairs, arch) ==
    LET nd == Len(dirs)
        hits == { k \in 1..(nd * Len(pairs)) :
                    /\ HostIsDir(dirs[((k - 1) % nd) + 1])
                    /\ HostIsFile(Join(dirs[((k - 1) % nd) + 1],
                                       <<pairs[((k - 1) \div nd) + 1][1]>>))
                    /\ HostIsFile(Join(dirs[((k - 1) % nd) + 1],
                                       <<pairs[((k - 1) \div nd) + 1][2]>>)) }
    IN  IF arch \notin SupportedArchs
        THEN [ok |-> FALSE, code |-> <<>>, vars |-> <<>>,
              err |-> <<"Unsupported arch", arch>>]
        ELSE IF hits = {}
        THEN [ok |-> FALSE, code |-> <<>>, vars |-> <<>>,
              err |-> ErrFirmwareNotFound(arch)]
        ELSE LET first == CHOOSE k \in hits : \A j \in hits : k <= j
                 d == dirs[((first - 1) % nd) + 1]
                 pair == pairs[((first - 1) \div nd) + 1]
             IN  [ok |-> TRUE, err |-> NoErr,
                  code |-> Join(d, <<pair[1]>>), vars |-> Join(d, <<pair[2]>>)]

\* for d in dirs { if !d.is_dir() continue; for (code, vars) in pairs { ... } }:
\* the first directory x pair, directories outermost, whose two files exist
FirstFirmware(dirs, pairs, arch) ==
    LET np == Len(pairs)
        hits == { k \in 1..(Len(dirs) * np) :
                    /\ HostIsDir(dirs[((k - 1) \div np) + 1])
                    /\ HostIsFile(Join(dirs[((k - 1) \div np) + 1],
                                       <<pairs[((k - 1) % np) + 1][1]>>))
                    /\ HostIsFile(Join(dirs[((k - 1) \div np) + 1],
                                       <<pairs[((k - 1) % np) + 1][2]>>)) }
    IN  IF arch \notin SupportedArchs
        THEN [ok |-> FALSE, code |-> <<>>, vars |-> <<>>,
              err |-> <<"Unsupported arch", arch>>]
        ELSE IF hits = {}
        THEN [ok |-> FALSE, code |-> <<>>, vars |-> <<>>,
              err |-> ErrFirmwareNotFound(arch)]
        ELSE LET first == CHOOSE k \in hits : \A j \in hits : k <= j
                 d == dirs[((first - 1) \div np) + 1]
                 pair == pairs[((first - 1) % np) + 1]
             IN  [ok |-> TRUE, err |-> NoErr,
                  code |-> Join(d, <<pair[1]>>), vars |-> Join(d, <<pair[2]>>)]

locate_firmware_from_qemu(qemu_bin, arch) ==
    FirstFirmware(FirmwareDirs(qemu_bin, arch), FirmwarePairs(arch), arch)

get_default_firmware_paths(arch) ==
    IF arch = "aarch64"
    THEN [code |-> Join(SysShare, <<"edk2-aarch64-code.fd">>),
          vars |-> Join(SysShare, <<"edk2-arm-vars.fd">>)]
    ELSE [code |-> Join(SysShare, <<"OVMF_CODE.fd">>),
          vars |-> Join(SysShare, <<"OVMF_VARS.fd">>)]

(***************************************************************************)
(* vm/creator.rs: VmCreator::create_vm.  p is CreateParams; e is what the   *)
(* environment answers during the call: e.mkdir (create_dir_all succeeds),  *)
(* e.img (qemu-img: "ok", "fail" = nonzero exit, "nospawn" = cannot run),   *)
(* e.save (see save_conf), e.now (the clock), e.mac (three random bytes).   *)
(***************************************************************************)
ErrDisk(sz) == <<"qemu-img failed to create disk", sz>>

DefaultDisk == <<"disk.qcow2">>

\* a faulty normalization that rewrites "host" on every architecture
CpuModelAnyArch(p) == IF p.cpu_model = "host" THEN "qemu64" ELSE p.cpu_model

\* CPU model normalization
cpu_model_final(p) ==
    IF p.arch = "x86_64" /\ p.cpu_model = "host" THEN "qemu64" ELSE p.cpu_model

Max(a, b) == IF a >= b THEN a ELSE b

\* a faulty topology decision that takes the vCPU count as it is given
TopologyRaw(p) ==
    IF IsSome(p.sockets) \/ IsSome(p.cores) \/ IsSome(p.threads)
    THEN <<UnwrapOr(p.sockets, 1), UnwrapOr(p.cores, 1), UnwrapOr(p.threads, 1)>>
    ELSE IF IsSome(p.smp) THEN <<1, p.smp[1], 1>>
    ELSE <<1, 4, 1>>

\* Topology decision: <<skt, cor, thr>>
topology(p) ==
    IF IsSome(p.sockets) \/ IsSome(p.cores) \/ IsSome(p.threads)
    THEN <<UnwrapOr(p.sockets, 1), UnwrapOr(p.cores, 1), UnwrapOr(p.threads, 1)>>
    ELSE IF IsSome(p.smp) THEN <<1, Max(p.smp[1], 1), 1>>
    ELSE <<1, 4, 1>>

\* the firmware of a lookup taken as it is, failed or not
UnwrapUnchecked(fw, arch) == [code |-> fw.code, vars |-> fw.vars]

\* locate_firmware_from_qemu(..).unwrap_or_else(|e| get_default_firmware_paths(..))
UnwrapOrDefaults(fw, arch) ==
    IF fw.ok THEN [code |-> fw.code, vars |-> fw.vars]
    ELSE get_default_firmware_paths(arch)

firmware_for(qemu_bin, arch) ==
    UnwrapOrDefaults(locate_firmware_from_qemu(qemu_bin, arch), arch)

\* the disk path persisted as the root-resolved one
DiskResolved(p) == resolve_under_root(VmRoot(p.name), UnwrapOr(p.disk, DefaultDisk))

\* let disk_rel_or_abs = params.disk.unwrap_or_else(|| PathBuf::from("disk.qcow2"))
disk_rel_or_abs(p) == UnwrapOr(p.disk, DefaultDisk)

\* the VmConfig create_vm assembles, from the topology and firmware it resolved
BuildConfig(p, e, root, uuid, topo, fw) ==
    [meta |-> [version |-> 1, generated |-> e.now, name |-> p.name,
               arch |-> p.arch, uuid |-> uuid],
     paths |-> [root |-> root, disk |-> disk_rel_or_abs(p),
                efi_vars |-> <<"efi_vars.fd">>],
     hardware |-> [cpu_model |-> cpu_model_final(p),
                   sockets |-> topo[1], cores |-> topo[2], threads |-> topo[3],
                   mem_mb |-> p.mem,
                   machine |-> IF p.arch = "aarch64" THEN "virt,gic-version=3"
                               ELSE "q35",
                   accel |-> IF p.arch = "aarch64" THEN "hvf" ELSE "kvm",
                   mac |-> <<"52", "54", "00">> \o e.mac],
     firmware |-> [code |-> fw.code, vars_template |-> fw.vars],
     network |-> [mode |-> p.net_mode, bridge_if |-> p.bridge_if,
                  forwards |-> [ssh |-> 0, meye |-> 0]],
     display |-> [mode |-> p.display_mode,
                  vnc |-> [use_unix |-> p.vnc_unix, host |-> p.vnc_host,
                           display |-> p.vnc_display,
                           sock |-> UnwrapOr(p.vnc_sock, <<"vnc.sock">>)],
                  spice |-> [use_unix |-> p.spice_unix, addr |-> p.spice_addr,
                             port |-> p.spice_port,
                             disable_ticketing |-> p.spice_disable_ticketing,
                             sock |-> UnwrapOr(p.spice_sock, <<"spice.sock">>)]]]

\* qemu-img create -f qcow2 <disk_abs> <sz>: it cannot succeed when the
\* directory the image goes into is missing
ImgOutcome(f, disk_abs, e) ==
    IF e.img = "ok" /\ ~IsDir(f, Front(disk_abs)) THEN "fail" ELSE e.img

\* create_vm once the hypervisor binary is resolved: firmware, descriptor, save
CreateSave(f, p, e, uuid, root, qemu_bin) ==
    save_conf(f, BuildConfig(p, e, root, uuid, topology(p),
                             firmware_for(qemu_bin, p.arch)), e.save)

Made(saved) ==
    [ok |-> saved.ok, err |-> saved.err, fs |-> saved.fs, made |-> TRUE, img |-> FALSE]

NotMade(err, f) == [ok |-> FALSE, err |-> err, fs |-> f, made |-> FALSE, img |-> FALSE]

\* Command::new("qemu-img")...status() was run on the way to outcome r
Invoked(r) == [r EXCEPT !.img = TRUE]

\* create_vm once the disk is dealt with: pick_qemu_bin(&params.arch)?, then the rest
CreateResolve(f, p, e, uuid, root, bin) ==
    IF ~bin.ok THEN NotMade(bin.err, f)
    ELSE Made(CreateSave(f, p, e, uuid, root, bin.val))

\* the disk step running the tool whenever a size is requested, whatever is at
\* disk_abs
CreateDiskAlways(f1, p, e, uuid, root, disk_abs, img) ==
    IF IsSome(p.disk_size)
    THEN Invoked(
         CASE img = "nospawn" -> NotMade(ErrIo("qemu-img"), f1)
           [] img = "fail" -> NotMade(ErrDisk(p.disk_size[1]), f1)
           [] OTHER -> CreateResolve(WriteFile(f1, disk_abs, <<"qcow2", p.disk_size[1]>>),
                                     p, e, uuid, root, pick_qemu_bin(p.arch)))
    ELSE CreateResolve(f1, p, e, uuid, root, pick_qemu_bin(p.arch))

\* the disk step treating a missing disk with no size requested as fatal
CreateDiskRequired(f1, p, e, uuid, root, disk_abs, img) ==
    IF IsSome(p.disk_size) /\ ~Exists(f1, disk_abs)
    THEN Invoked(
         CASE img = "nospawn" -> NotMade(ErrIo("qemu-img"), f1)
           [] img = "fail" -> NotMade(ErrDisk(p.disk_size[1]), f1)
           [] OTHER -> CreateResolve(WriteFile(f1, disk_abs, <<"qcow2", p.disk_size[1]>>),
                                     p, e, uuid, root, pick_qemu_bin(p.arch)))
    ELSE IF ~Exists(f1, disk_abs) THEN NotMade(ErrIo("disk"), f1)
    ELSE CreateResolve(f1, p, e, uuid, root, pick_qemu_bin(p.arch))

\* create_vm once the root exists (f1): the disk, run when a size is requested
\* and nothing exists at disk_abs
CreateDisk(f1, p, e, uuid, root, disk_abs, img) ==
    IF IsSome(p.disk_size) /\ ~Exists(f1, disk_abs)
    THEN Invoked(
         CASE img = "nospawn" -> NotMade(ErrIo("qemu-img"), f1)
           [] img = "fail" -> NotMade(ErrDisk(p.disk_size[1]), f1)
           [] OTHER -> CreateResolve(WriteFile(f1, disk_abs, <<"qcow2", p.disk_size[1]>>),
                                     p, e, uuid, root, pick_qemu_bin(p.arch)))
    ELSE CreateResolve(f1, p, e, uuid, root, pick_qemu_bin(p.arch))

CreateInRoot(f1, p, e, uuid, root, disk_abs) ==
    CreateDisk(f1, p, e, uuid, root, disk_abs, ImgOutcome(f1, disk_abs, e))

\* create_vm with a uniqueness guard: an existing root is a collision
CreateVmGuarded(f, p, e, uuid) ==
    IF ~QvmHomeOk THEN NotMade(ErrNoHome, f)
    ELSE IF Exists(f, VmRoot(p.name)) THEN NotMade(ErrIo("exists"), f)
    ELSE IF ~e.mkdir THEN NotMade(ErrIo("mkdir"), f)
    ELSE CreateInRoot(CreateDirAll(f, VmRoot(p.name)), p, e, uuid, VmRoot(p.name),
                      resolve_under_root(VmRoot(p.name), UnwrapOr(p.disk, DefaultDisk)))

\* create_vm resolving the hypervisor binary before it touches the filesystem
CreateVmPickFirst(f, p, e, uuid) ==
    IF ~QvmHomeOk THEN NotMade(ErrNoHome, f)
    ELSE IF ~pick_qemu_bin(p.arch).ok THEN NotMade(pick_qemu_bin(p.arch).err, f)
    ELSE IF ~e.mkdir THEN NotMade(ErrIo("mkdir"), f)
    ELSE CreateInRoot(CreateDirAll(f, VmRoot(p.name)), p, e, uuid, VmRoot(p.name),
                      resolve_under_root(VmRoot(p.name), UnwrapOr(p.disk, DefaultDisk)))

\* the whole of create_vm: [ok, err, fs, made, img], made = a descriptor was
\* assembled, img = the disk tool was run
create_vm(f, p, e, uuid) ==
    IF ~QvmHomeOk THEN NotMade(ErrNoHome, f)
    ELSE IF ~e.mkdir THEN NotMade(ErrIo("mkdir"), f)
    ELSE CreateInRoot(CreateDirAll(f, VmRoot(p.name)), p, e, uuid, VmRoot(p.name),
                      resolve_under_root(VmRoot(p.name), UnwrapOr(p.disk, DefaultDisk)))

(***************************************************************************)
(* vm/manager.rs: VmManager::delete_vm.  input is the line read from the    *)
(* operator (empty at end of input); psOk as in is_vm_running.              *)
(***************************************************************************)
\* a faulty confirmation that takes any line beginning with "y"
ConfirmsLoose(input) ==
    Len(Trim(input)) > 0 /\ ToLowercase(Trim(input))[1] = "y"

\* matches!(input.trim().to_lowercase().as_str(), "y" | "yes")
Confirms(input) ==
    ToLowercase(Trim(input)) \in { <<"y">>, <<"y", "e", "s">> }

\* the outcome of delete_vm: [ok, err, fs, running, prompted]
DelOut(ok, err, f, running, prompted) ==
    [ok |-> ok, err |-> err, fs |-> f, running |-> running, prompted |-> prompted]

\* a faulty refusal that reports the running VM after removing it
RefuseRunningLate(f, name) ==
    DelOut(FALSE, ErrRunning(name), RemoveDirAll(f, VmRoot(name)), "true", FALSE)

\* if is_vm_running(name)? { return Err(anyhow!("Cannot delete VM ...")) }
RefuseRunning(f, name) == DelOut(FALSE, ErrRunning(name), f, "true", FALSE)

\* let config = load_conf(name)?, when it fails
RefuseNoConf(f, err) == DelOut(FALSE, err, f, "false", FALSE)

\* println!("Deletion cancelled."); return Ok(())
Cancelled(f) == DelOut(TRUE, NoErr, f, "false", TRUE)

\* fs::remove_dir_all(&vm_dir)?; Ok(())
RemoveVm(f, vm_dir, prompted) ==
    DelOut(TRUE, NoErr, RemoveDirAll(f, vm_dir), "false", prompted)

\* delete_vm loading the descriptor before it looks at the liveness answer
DeleteLoadFirst(run, vm_dir, name, force, input) ==
    IF ~load_conf(run.fs, name).ok
    THEN RefuseNoConf(run.fs, load_conf(run.fs, name).err)
    ELSE CASE run.ret = "err" -> DelOut(FALSE, run.err, run.fs, "err", FALSE)
           [] run.ret = "true" -> RefuseRunning(run.fs, name)
           [] OTHER -> IF ~force /\ ~Confirms(input) THEN Cancelled(run.fs)
                       ELSE RemoveVm(run.fs, vm_dir, ~force)

\* delete_vm once the liveness check (run) has answered
DeleteChecked(run, vm_dir, name, force, input) ==
    CASE run.ret = "err" -> DelOut(FALSE, run.err, run.fs, "err", FALSE)
      [] run.ret = "true" -> RefuseRunning(run.fs, name)
      [] OTHER ->
           IF ~load_conf(run.fs, name).ok
           THEN RefuseNoConf(run.fs, load_conf(run.fs, name).err)
           ELSE IF ~force /\ ~Confirms(input) THEN Cancelled(run.fs)
           ELSE RemoveVm(run.fs, vm_dir, ~force)

\* delete_vm once find_vm_dir has answered
DeleteFound(f, dir, name, force, input, psOk) ==
    IF ~dir.ok THEN DelOut(FALSE, dir.err, f, "none", FALSE)
    ELSE DeleteChecked(is_vm_running(f, name, psOk), dir.val, name, force, input)

delete_vm(f, name, force, input, psOk) ==
    DeleteFound(f, find_vm_dir(f, name), name, force, input, psOk)

(***************************************************************************)
(* Inputs: VM names, create parameters, environment answers, hosts.         *)
(***************************************************************************)
NameA == <<"a">>

NameB == <<"b">>

\* a name with a separator in it ("s/a") and an absolute one ("/t/a")
NameNested == <<"s", "a">>

NameAbs == <<"/", "t", "a">>

\* the empty name
NameEmpty == <<"">>

\* the names looked up (deleted, probed) in the lifecycle specification; only
\* Names are ever created there
LookupNames == {NameA, NameNested}

\* the VM name of the lifecycle specification
Names == {NameA}

ExtDir == <<"/", "ext">>

ExtDisk == <<"/", "ext", "d.qcow2">>

RelDisk == <<"my.qcow2">>

\* CreateParams, the flags not given taking the defaults of cli/commands.rs
Params(name, arch, cpu, smp, skt, cor, thr, mem, disk, size) ==
    [name |-> name, arch |-> arch, cpu_model |-> cpu, smp |-> smp,
     sockets |-> skt, cores |-> cor, threads |-> thr, mem |-> mem,
     net_mode |-> "vmnet-shared", bridge_if |-> "en0", display_mode |-> "cocoa",
     disk |-> disk, disk_size |-> size,
     vnc_host |-> "127.0.0.1", vnc_display |-> 1, vnc_sock |-> None,
     vnc_unix |-> FALSE, spice_addr |-> "127.0.0.1", spice_port |-> 5930,
     spice_sock |-> None, spice_unix |-> FALSE, spice_disable_ticketing |-> TRUE]

NoParams == Params(<<>>, "", "", None, None, None, None, 0, None, None)

Env(mkdir, img, save) ==
    [mkdir |-> mkdir, img |-> img, save |-> save,
     now |-> "2025-01-01T00:00:00+00:00", mac |-> <<"0a", "0b", "0c">>]

NoEnv == Env(TRUE, "ok", "ok")

\* the create calls of the lifecycle specification
LifecycleParams ==
    { Params(n, arch, "host", None, None, None, None, 2048, disk, size) :
        n \in Names, arch \in {"aarch64", "riscv64"},
        disk \in {None}, size \in {None, Some("10G")} }

LifecycleEnvs == { Env(TRUE, "ok", "ok"), Env(TRUE, "fail", "ok"), Env(TRUE, "ok", "trunc") }

\* the lines the operator types, and the marker contents, of the lifecycle
\* specification
LifecycleInputs == { <<"y">>, <<"n">> }

LifecycleMarkers == { <<"1">>, <<"x">>, <<BadByte>> }

LifecyclePids == { <<"1">> }

\* whether `ps` can be run, in the lifecycle specification
LifecyclePs == BOOLEAN

\* a NixOS host: the aarch64 hypervisor under /run/current-system, a symlink
\* into the store, with its firmware beside it
StoreQemu == Join(NixStore, <<"h1-qemu-9">>)

HostNix ==
    [home |-> TRUE,
     files |-> { Join(SysBinDir, <<ExeName("aarch64")>>),
                 Join(StoreQemu, <<"bin", ExeName("aarch64")>>),
                 Join(StoreQemu, <<"share", "qemu", "edk2-aarch64-code.fd">>),
                 Join(StoreQemu, <<"share", "qemu", "edk2-arm-vars.fd">>) },
     dirs |-> { Join(StoreQemu, <<"share", "qemu">>) },
     which |-> {},
     links |-> { <<Join(SysBinDir, <<ExeName("aarch64")>>),
                   Join(StoreQemu, <<"bin", ExeName("aarch64")>>)>> },
     store |-> <<"h1-qemu-9">>]

\* a host with both hypervisors: aarch64 as on HostNix, x86_64 on the search
\* path, without firmware of its own
UsrBinX86 == <<"/", "usr", "bin", ExeName("x86_64")>>

HostBoth ==
    [HostNix EXCEPT !.files = @ \cup {UsrBinX86},
                    !.which = {<<ExeName("x86_64"), UsrBinX86>>}]

\* a host with no hypervisor installed
HostBare ==
    [home |-> TRUE, files |-> {}, dirs |-> {}, which |-> {}, links |-> {},
     store |-> <<>>]

\* a host on which no home directory can be determined
HostNoHome == [HostBare EXCEPT !.home = FALSE]

LifecycleHosts == {HostNix, HostNoHome}

\* the filesystem before any VM exists
BaseFs ==
    [q \in { <<"/">>, <<"/", "home">>, HomeDir, ExtDir } |-> DirNode]

(***************************************************************************)
(* The record of the last step.                                             *)
(***************************************************************************)
\* op and its inputs (name, force, arg, env, psOk), what it observed (existed:
\* the VM root existed when it began; fresh: the step before it was a
\* successful Create of the same name; running: the liveness check's answer;
\* prompted and input: the operator was asked, and the line read) and what it
\* returned (ok, err, ret); bin is the executable a firmware lookup was given,
\* img whether a Create ran the disk tool, root and path the arguments of a
\* path computation
Rec(op, name, force, input, arg, env, psOk, ok, err, running, prompted, ret) ==
    [op |-> op, name |-> name, force |-> force, input |-> input, arg |-> arg,
     env |-> env, psOk |-> psOk, ok |-> ok, err |-> err, running |-> running,
     prompted |-> prompted, ret |-> ret,
     existed |-> IF Len(name) > 0 THEN Exists(fs, VmRoot(name)) ELSE FALSE,
     fresh |-> res.op = "create" /\ res.ok /\ res.name = name,
     bin |-> <<>>, img |-> FALSE, root |-> <<>>, path |-> <<>>]

InitRes ==
    [op |-> "init", name |-> <<>>, force |-> FALSE, input |-> <<>>,
     arg |-> NoParams, env |-> NoEnv, psOk |-> TRUE, ok |-> TRUE, err |-> NoErr,
     running |-> "none", prompted |-> FALSE, ret |-> "none", existed |-> FALSE,
     fresh |-> FALSE, bin |-> <<>>, img |-> FALSE, root |-> <<>>, path |-> <<>>]

EnvRec(op, name) == [InitRes EXCEPT !.op = op, !.name = name]

(***************************************************************************)
(* The operations of the program.                                           *)
(***************************************************************************)
\* qvm create
CreateOp(p, e) ==
    /\ nextUuid <= MaxCreates
    /\ LET r == create_vm(fs, p, e, nextUuid)
       IN  /\ fs' = r.fs
           /\ nextUuid' = IF r.made THEN nextUuid + 1 ELSE nextUuid
           /\ res' = [Rec("create", p.name, FALSE, <<>>, p, e, TRUE, r.ok, r.err,
                          "none", FALSE, "none") EXCEPT !.img = r.img]
    /\ UNCHANGED <<live, host, stdin>>

\* qvm delete; the prompt's read_line takes the line the operator has typed and
\* leaves the terminal at end of input
DeleteOp(n, force, psOk) ==
    /\ LET r == delete_vm(fs, n, force, stdin, psOk)
       IN  /\ fs' = r.fs
           /\ stdin' = IF r.prompted THEN <<>> ELSE stdin
           /\ res' = Rec("delete", n, force, IF r.prompted THEN stdin ELSE <<>>,
                         NoParams, NoEnv, psOk, r.ok,
                         r.err, r.running, r.prompted, "none")
    /\ UNCHANGED <<live, host, nextUuid>>

\* a call of is_vm_running on its own
IsRunningOp(n, psOk) ==
    /\ LET r == is_vm_running(fs, n, psOk)
       IN  /\ fs' = r.fs
           /\ res' = Rec("is_running", n, FALSE, <<>>, NoParams, NoEnv, psOk,
                         r.ret # "err", r.err, r.ret, FALSE, r.ret)
    /\ UNCHANGED <<live, host, stdin, nextUuid>>

\* a call of find_vm_dir on its own
FindOp(n) ==
    /\ LET r == find_vm_dir(fs, n)
       IN  res' = Rec("find", n, FALSE, <<>>, NoParams, NoEnv, TRUE, r.ok, r.err,
                      "none", FALSE, r.val)
    /\ UNCHANGED <<fs, live, host, stdin, nextUuid>>

(***************************************************************************)
(* The environment: the launcher writes the process marker of a VM, and     *)
(* processes start and exit.                                                *)
(***************************************************************************)
WriteMarker(n, text) ==
    /\ QvmHomeOk
    /\ IsDir(fs, VmRoot(n))
    /\ fs' = WriteFile(fs, PidFile(VmRoot(n)), text)
    /\ res' = EnvRec("marker", n)
    /\ UNCHANGED <<live, host, stdin, nextUuid>>

ProcStart(pid) ==
    /\ pid \notin live
    /\ live' = live \cup {pid}
    /\ res' = EnvRec("proc", <<>>)
    /\ UNCHANGED <<fs, host, stdin, nextUuid>>

ProcExit(pid) ==
    /\ pid \in live
    /\ live' = live \ {pid}
    /\ res' = EnvRec("proc", <<>>)
    /\ UNCHANGED <<fs, host, stdin, nextUuid>>

\* the operator types a line at the terminal, ahead of the prompt that reads it
OperatorTypes(line) ==
    /\ stdin = <<>>
    /\ stdin' = line
    /\ res' = EnvRec("type", <<>>)
    /\ UNCHANGED <<fs, live, host, nextUuid>>

(***************************************************************************)
(* The lifecycle specification: from a clean storage root, any sequence of  *)
(* operations on a VM name.                                                 *)
(***************************************************************************)
Init ==
    /\ fs = BaseFs
    /\ live = {}
    /\ host \in LifecycleHosts
    /\ stdin = <<>>
    /\ nextUuid = 1
    /\ res = InitRes

Next ==
    \/ \E p \in LifecycleParams, e \in LifecycleEnvs : CreateOp(p, e)
    \/ \E n \in LookupNames, force \in BOOLEAN, psOk \in LifecyclePs :
          DeleteOp(n, force, psOk)
    \/ \E n \in LookupNames, psOk \in LifecyclePs : IsRunningOp(n, psOk)
    \/ \E n \in LookupNames : FindOp(n)
    \/ \E n \in Names, text \in LifecycleMarkers : WriteMarker(n, text)
    \/ \E pid \in LifecyclePids : ProcStart(pid)
    \/ \E pid \in LifecyclePids : ProcExit(pid)
    \/ \E line \in LifecycleInputs : OperatorTypes(line)

Spec == Init /\ [][Next]_vars

(***************************************************************************)
(* Properties of Delete, checked on every step of the lifecycle.            *)
(***************************************************************************)
\* the step just taken is a Delete (every operation records itself in res)
DeleteStep == res'.op = "delete"

RootOf(r) == VmRoot(r.name)

\* C1: a Delete whose liveness check answered "running" fails with the
\* VM-is-running error, whatever force is, and leaves the filesystem exactly as
\* it was: the VM root and its vm.pid are still there, and so is every other
\* file
C1_RunningDeleteRefused ==
    [][ (DeleteStep /\ res'.running = "true")
          => /\ ~res'.ok
             /\ res'.err = <<"VM is currently running", res'.name>>
             /\ fs' = fs
             /\ IsDir(fs', RootOf(res'))
             /\ IsFile(fs', PidFile(RootOf(res'))) ]_vars

\* a forced Delete of a created VM, with its descriptor and disk, was refused
\* because the VM runs
C1_Witness ==
    /\ res.op = "delete" /\ res.force /\ res.running = "true"
    /\ IsFile(fs, conf_path(RootOf(res)))
    /\ IsFile(fs, Join(RootOf(res), DefaultDisk))

\* vm.json is missing or cannot be deserialized
ConfBroken(f, root) ==
    ~IsFile(f, conf_path(root)) \/ ~Parses(f[conf_path(root)].data)

\* the marker file holds bytes fs::read_to_string reads as text
Readable(t) == \A i \in 1..Len(t) : t[i] # BadByte

\* g is f but for the marker pf, which is gone from g if it was an unreadable
\* file in f, and as it was otherwise
SameButStaleMarker(f, g, pf) ==
    /\ DOMAIN g \subseteq DOMAIN f
    /\ \A q \in DOMAIN f : q # pf => (q \in DOMAIN g /\ g[q] = f[q])
    /\ (IsFile(f, pf) /\ ~Readable(f[pf].data)) => ~Exists(g, pf)
    /\ (Exists(f, pf) /\ ~(IsFile(f, pf) /\ ~Readable(f[pf].data)))
         => (Exists(g, pf) /\ g[pf] = f[pf])

\* C3 (as claimed): with the VM root in place, the VM not running and vm.json
\* missing or not deserializable, Delete fails, for both values of force,
\* before prompting and before any removal
C3_AsClaimed ==
    [][ (DeleteStep /\ res'.running = "false" /\ ConfBroken(fs, RootOf(res')))
          => (~res'.ok /\ ~res'.prompted /\ fs' = fs) ]_vars

\* C3: with the VM root in place, the VM not running and vm.json missing or
\* not deserializable, Delete fails, for both values of force, without asking
\* the operator; the root and everything in it stay as they were, but for a
\* vm.pid that could not be read, which the liveness check has removed

C3_BrokenConfDeleteFails ==
    [][ (DeleteStep /\ res'.running = "false" /\ ConfBroken(fs, RootOf(res')))
          => /\ ~res'.ok
             /\ ~res'.prompted
             /\ IsDir(fs', RootOf(res'))
             /\ SameButStaleMarker(fs, fs', PidFile(RootOf(res'))) ]_vars

\* a forced Delete failed on a root whose vm.json is a truncated file, next to
\* the disk image
C3_Witness ==
    /\ res.op = "delete" /\ res.force /\ res.running = "false" /\ ~res.ok
    /\ IsFile(fs, conf_path(RootOf(res)))
    /\ ~Parses(fs[conf_path(RootOf(res))].data)
    /\ IsFile(fs, Join(RootOf(res), DefaultDisk))

\* C4 (as claimed): after a Create on an unused name that failed partway,
\* leaving the root behind, a forced Delete of the not-running VM succeeds and
\* removes the root
C4_DeleteCleansFailedCreate ==
    [][ ( /\ res.op = "create" /\ ~res.ok /\ ~res.existed
          /\ Exists(fs, RootOf(res))
          /\ DeleteStep /\ res'.name = res.name /\ res'.force
          /\ res'.running = "false" )
          => (res'.ok /\ ~Exists(fs', RootOf(res))) ]_vars

\* C5: for a name whose directory does not exist, Delete (forced or not) and
\* find_vm_dir fail with the not-found error, which names the VM and the
\* storage root, and the filesystem is untouched
C5_MissingVmNotFound ==
    [][ ( /\ res'.op \in {"delete", "find"}
          /\ QvmHomeOk
          /\ ~Exists(fs, RootOf(res')) )
          => /\ ~res'.ok
             /\ res'.err = <<"VM not found", res'.name, Join(HomeDir, <<"qvm">>)>>
             /\ fs' = fs ]_vars

\* an unforced Delete of a VM that was removed before failed with not-found
C5_Witness ==
    /\ res.op = "delete" /\ ~res.force /\ ~res.ok /\ res.err[1] = "VM not found"
    /\ nextUuid > 1

\* C6: a forced Delete, of a VM that is not running, right after a successful
\* Create of it removes <name>.qvm and everything below it, and find_vm_dir
\* then fails with the not-found error
C6_CreateThenDeleteRemoves ==
    [][ ( /\ res.op = "create" /\ res.ok
          /\ DeleteStep /\ res'.name = res.name /\ res'.force
          /\ res'.running = "false" )
          => /\ res'.ok
             /\ DOMAIN Tree(fs', RootOf(res)) = {}
             /\ ~find_vm_dir(fs', res.name).ok
             /\ find_vm_dir(fs', res.name).err[1] = "VM not found" ]_vars

\* the root, with the disk image Create provisioned, is gone after the Delete
C6_Witness ==
    /\ res.op = "delete" /\ res.force /\ res.ok /\ res.existed /\ res.fresh
    /\ res.running = "false"
    /\ ~Exists(fs, RootOf(res))

(***************************************************************************)
(* A created VM, for the specifications that start from one.                *)
(***************************************************************************)
\* `qvm create a --disk-size 10G`, while no VM of that name exists
DemoParams ==
    Params(NameA, "aarch64", "host", None, None, None, None, 4096, None, Some("10G"))

Provision == ~Exists(fs, VmRoot(NameA)) /\ CreateOp(DemoParams, NoEnv)

\* the launcher writes the marker of the VM, which has none
LaunchMarker(t) == ~Exists(fs, PidFile(VmRoot(NameA))) /\ WriteMarker(NameA, t)

\* the sequences over alphabet of length at most n
Texts(alphabet, n) == UNION { [1..k -> alphabet] : k \in 0..n }

Spaces(s) == \A i \in 1..Len(s) : s[i] \in WhiteSpace

(***************************************************************************)
(* The liveness specification: a VM is created, its vm.pid is written with  *)
(* any text, processes start and exit, and is_vm_running is called.         *)
(***************************************************************************)
PidAlphabet == {" ", "0", "1", "+", "x", BadByte}

\* u32::MAX + 1
U32Over == <<"4", "2", "9", "4", "9", "6", "7", "2", "9", "6">>

PidTexts == Texts(PidAlphabet, MaxPidLen) \cup {U32Max, U32Over}

RunningPids == { <<"1">>, <<"1", "0">> }

InitRunning ==
    /\ host = HostNix
    /\ live = {}
    /\ stdin = <<>>
    /\ nextUuid = 1
    /\ res = InitRes
    /\ fs = BaseFs

NextRunning ==
    \/ Provision
    \/ \E t \in PidTexts : LaunchMarker(t)
    \/ \E psOk \in BOOLEAN : IsRunningOp(NameA, psOk)
    \/ \E pid \in RunningPids : ProcStart(pid)
    \/ \E pid \in RunningPids : ProcExit(pid)

SpecRunning == InitRunning /\ [][NextRunning]_vars

\* the step just taken is a call of is_vm_running on a VM whose directory exists
RunningStep == res'.op = "is_running" /\ IsDir(fs, RootOf(res'))

\* the process ids a marker text denotes (none or one): the text is spaces, an
\* optional "+", one or more digits, spaces, and the number fits a u32
PidsOf(t) ==
    { Canonical(SubSeq(t, ij[1], ij[2])) :
        ij \in { x \in (1..Len(t)) \X (1..Len(t)) :
                  /\ x[1] <= x[2]
                  /\ \A m \in x[1]..x[2] : t[m] \in Digits
                  /\ \/ Spaces(SubSeq(t, 1, x[1] - 1))
                     \/ /\ x[1] >= 2 /\ t[x[1] - 1] = "+"
                        /\ Spaces(SubSeq(t, 1, x[1] - 2))
                  /\ Spaces(SubSeq(t, x[2] + 1, Len(t)))
                  /\ FitsU32(Canonical(SubSeq(t, x[1], x[2]))) } }

\* the marker of the VM is a file whose content is not a valid integer
BadMarker(f, pf) == IsFile(f, pf) /\ PidsOf(f[pf].data) = {}

\* C8 (as claimed): when the VM directory exists and vm.pid exists with a
\* content that is not a valid integer, is_vm_running deletes the marker and
\* returns false
C8_AsClaimed ==
    [][ (RunningStep /\ BadMarker(fs, PidFile(RootOf(res'))))
          => (res'.ret = "false" /\ ~Exists(fs', PidFile(RootOf(res')))) ]_vars

\* C8: when the VM directory exists and vm.pid exists with a content that is
\* not a valid integer, is_vm_running returns false; it deletes the marker only
\* if the file cannot be read as text, and leaves a readable marker, and all
\* else, as it was
C8_BadMarkerFalse ==
    [][ (RunningStep /\ BadMarker(fs, PidFile(RootOf(res'))))
          => /\ res'.ret = "false"
             /\ Exists(fs', PidFile(RootOf(res')))
                  <=> Readable(fs[PidFile(RootOf(res'))].data)
             /\ SameButStaleMarker(fs, fs', PidFile(RootOf(res'))) ]_vars

\* is_vm_running answered false on a readable marker that holds no integer, and
\* the marker is still there
C8_Witness ==
    /\ res.op = "is_running" /\ res.ret = "false"
    /\ BadMarker(fs, PidFile(RootOf(res)))
    /\ Readable(fs[PidFile(RootOf(res))].data)
    /\ Len(fs[PidFile(RootOf(res))].data) > 0

\* C9: for an existing VM directory, is_vm_running returns true exactly when
\* vm.pid exists, its trimmed content parses as a process id and the process
\* table, queried with success, has that id; without a marker it returns false
\* and touches nothing; a marker whose process is gone gives false, not an error
C9_RunningIff ==
    [][ RunningStep =>
          LET pf == PidFile(RootOf(res'))
              pids == IF IsFile(fs, pf) THEN PidsOf(fs[pf].data) ELSE {}
          IN  /\ (res'.ret = "true")
                   <=> (res'.psOk /\ \E pid \in pids : pid \in live)
              /\ ~Exists(fs, pf) => (res'.ret = "false" /\ fs' = fs)
              /\ (res'.psOk /\ pids # {} /\ pids \cap live = {})
                   => (res'.ret = "false" /\ res'.ok /\ fs' = fs) ]_vars

\* is_vm_running answered true on a marker with padding around the pid
C9_Witness ==
    /\ res.op = "is_running" /\ res.ret = "true"
    /\ fs[PidFile(RootOf(res))].data = <<" ", "1", " ">>
    /\ live = { <<"1">> }

(***************************************************************************)
(* The confirmation specification: any line typed by the operator ahead of  *)
(* time; a VM is created, its marker left by a process now gone, then       *)
(* Delete and lookups.                                                      *)
(***************************************************************************)
InputAlphabet == {"y", "e", "S", " ", "n"}

InputLines == Texts(InputAlphabet, MaxInputLen)

\* what vm.pid of the VM holds: the pid of a process that is gone, or bytes
\* that are not text
ConfirmMarkers == { <<"1">>, <<BadByte>> }

InitConfirm ==
    /\ host = HostNix
    /\ live = {}
    /\ stdin \in InputLines
    /\ nextUuid = 1
    /\ res = InitRes
    /\ fs = BaseFs

NextConfirm ==
    \/ Provision
    \/ \E t \in ConfirmMarkers : LaunchMarker(t)
    \/ \E force \in BOOLEAN : DeleteOp(NameA, force, TRUE)
    \/ FindOp(NameA)

SpecConfirm == InitConfirm /\ [][NextConfirm]_vars

\* "y" and "yes" in any letter case
YesWords ==
    { <<a>> : a \in {"y", "Y"} }
      \cup { <<a, b, c>> : a \in {"y", "Y"}, b \in {"e", "E"}, c \in {"s", "S"} }

\* the line is a YesWord with any whitespace before and after it
Affirms(line) ==
    \E i \in 1..Len(line), j \in 1..Len(line) :
        /\ i <= j
        /\ SubSeq(line, i, j) \in YesWords
        /\ Spaces(SubSeq(line, 1, i - 1))
        /\ Spaces(SubSeq(line, j + 1, Len(line)))

\* C2 (as claimed): without force, Delete removes the VM root only if the line
\* read, trimmed and lower-cased, is "y" or "yes"; on any other line it returns
\* success and leaves the VM root tree unchanged
C2_AsClaimed ==
    [][ (DeleteStep /\ ~res'.force)
          => /\ (Exists(fs, RootOf(res')) /\ ~Exists(fs', RootOf(res')))
                  => Affirms(stdin)
             /\ (res'.prompted /\ ~Affirms(stdin))
                  => (res'.ok /\ Tree(fs', RootOf(res')) = Tree(fs, RootOf(res'))) ]_vars

\* C2: without force, Delete removes the VM root only if the line read,
\* trimmed and lower-cased, is "y" or "yes", and then removes all of it; on any
\* other line it returns success and leaves the filesystem as it was, but for a
\* vm.pid that could not be read, which the liveness check has removed
C2_OnlyYesRemoves ==
    [][ (DeleteStep /\ ~res'.force)
          => /\ (Exists(fs, RootOf(res')) /\ ~Exists(fs', RootOf(res')))
                  => Affirms(stdin)
             /\ (res'.prompted /\ Affirms(stdin))
                  => (res'.ok /\ DOMAIN Tree(fs', RootOf(res')) = {})
             /\ (res'.prompted /\ ~Affirms(stdin))
                  => /\ res'.ok
                     /\ IsDir(fs', RootOf(res'))
                     /\ SameButStaleMarker(fs, fs', PidFile(RootOf(res'))) ]_vars

\* an unforced Delete was cancelled on the line "ye ", and the VM is still there
C2_Witness ==
    /\ res.op = "delete" /\ ~res.force /\ res.prompted /\ res.ok
    /\ res.input = <<"y", "e", " ">>
    /\ IsFile(fs, conf_path(RootOf(res)))

(***************************************************************************)
(* The creation specification: one Create from a clean storage root, over   *)
(* names of every shape and over every choice of the topology flags, then   *)
(* lookups.                                                                 *)
(***************************************************************************)
CreateNames == {NameA, NameNested, NameAbs, NameEmpty}

NameSlice ==
    { Params(n, arch, "host", None, None, None, None, mem, None, size) :
        n \in CreateNames, arch \in SupportedArchs, mem \in {2048, 4096},
        size \in {None, Some("10G")} }

CountOpts == {None} \cup { Some(k) : k \in 0..MaxCount }

TopologySlice ==
    { Params(NameA, "aarch64", "host", smp, skt, cor, thr, 4096, None, None) :
        smp \in CountOpts, skt \in CountOpts, cor \in CountOpts, thr \in CountOpts }

\* --cpu-model over both architectures
CpuModels == {"host", "Host", "max", "qemu64"}

CpuSlice ==
    { Params(NameA, arch, cpu, None, None, None, None, 4096, None, None) :
        arch \in SupportedArchs, cpu \in CpuModels }

\* --net-mode and --display-mode: the documented values and others, which the
\* command line takes as well (both flags are plain strings)
NetModes == {"vmnet-shared", "vmnet-bridged", "user", "bogus", ""}

DisplayModes == {"cocoa", "vnc", "spice", "headless", "bogus", ""}

ModeSlice ==
    { [DemoParams EXCEPT !.net_mode = nm, !.display_mode = dm] :
        nm \in NetModes, dm \in DisplayModes }

\* --disk absent, absolute and relative, with and without --disk-size
DiskOpts == {None, Some(ExtDisk), Some(RelDisk)}

DiskSlice ==
    { Params(NameA, arch, "host", None, None, None, None, 4096, disk, size) :
        arch \in SupportedArchs, disk \in DiskOpts, size \in {None, Some("10G")} }

CreateOnce(p) == res.op = "init" /\ CreateOp(p, NoEnv)

InitCreate ==
    /\ host = HostBoth
    /\ live = {}
    /\ stdin = <<>>
    /\ nextUuid = 1
    /\ res = InitRes
    /\ fs = BaseFs

NextCreate ==
    \/ \E p \in NameSlice \cup TopologySlice \cup CpuSlice \cup ModeSlice \cup DiskSlice :
          CreateOnce(p)
    \/ \E n \in CreateNames : FindOp(n)

SpecCreate == InitCreate /\ [][NextCreate]_vars

\* the last step was a Create that returned success
Created == res.op = "create" /\ res.ok

\* the descriptor in the vm.json of directory root
ConfIn(f, root) == Deserialize(f[conf_path(root)].data)

\* the stem of a directory name: the name without its extension, and all of a
\* name that has no more than a leading "."
FileStem(c) ==
    IF c # ".qvm" /\ \E n \in {"a", "b", "s", "t"} : c = n \o ".qvm"
    THEN CHOOSE n \in {"a", "b", "s", "t"} : c = n \o ".qvm"
    ELSE c

\* the descriptor Create wrote at root is in a file, and holds what was asked
DescriptorAt(root) ==
    /\ IsFile(fs, conf_path(root))
    /\ Parses(fs[conf_path(root)].data)
    /\ ConfIn(fs, root).meta.name = res.arg.name
    /\ ConfIn(fs, root).meta.arch = res.arg.arch
    /\ ConfIn(fs, root).meta.version = 1
    /\ ConfIn(fs, root).hardware.mem_mb = res.arg.mem
    /\ ConfIn(fs, root).paths.root = root

SimpleName(name) == Len(name) = 1 /\ name[1] # "" /\ name[1] # "/"

WrittenTopology ==
    <<ConfIn(fs, RootOf(res)).hardware.sockets,
      ConfIn(fs, RootOf(res)).hardware.cores,
      ConfIn(fs, RootOf(res)).hardware.threads>>

AnyTopologyFlag(p) == p.sockets # None \/ p.cores # None \/ p.threads # None

OrOne(o) == IF o = None THEN 1 ELSE o[1]

\* C10 (as claimed): the topology is (sockets or 1, cores or 1, threads or 1)
\* when any of the three is given, else (1, n, 1) when smp = n is given, else
\* (1, 4, 1)
C10_AsClaimed ==
    Created =>
      WrittenTopology =
        IF AnyTopologyFlag(res.arg)
        THEN <<OrOne(res.arg.sockets), OrOne(res.arg.cores), OrOne(res.arg.threads)>>
        ELSE IF res.arg.smp # None THEN <<1, res.arg.smp[1], 1>>
        ELSE <<1, 4, 1>>

\* C10: the topology is (sockets or 1, cores or 1, threads or 1) when any of
\* the three is given, smp being ignored; else (1, n, 1) when smp = n >= 1 is
\* given and (1, 1, 1) when smp = 0 is; else (1, 4, 1)
C10_Topology ==
    Created =>
      WrittenTopology =
        IF AnyTopologyFlag(res.arg)
        THEN <<OrOne(res.arg.sockets), OrOne(res.arg.cores), OrOne(res.arg.threads)>>
        ELSE IF res.arg.smp = None THEN <<1, 4, 1>>
        ELSE IF res.arg.smp[1] = 0 THEN <<1, 1, 1>>
        ELSE <<1, res.arg.smp[1], 1>>

\* Create with --smp 0 and no topology flag wrote one core
C10_Witness ==
    /\ Created /\ res.arg.smp = Some(0) /\ ~AnyTopologyFlag(res.arg)
    /\ WrittenTopology = <<1, 1, 1>>

\* C11 (as claimed): every descriptor Create persists has sockets, cores and
\* threads all positive, so their product is at least 1, whatever smp,
\* sockets, cores and threads were given, zero included
C11_TopologyPositive ==
    Created =>
      /\ WrittenTopology[1] >= 1 /\ WrittenTopology[2] >= 1 /\ WrittenTopology[3] >= 1
      /\ WrittenTopology[1] * WrittenTopology[2] * WrittenTopology[3] >= 1

\* the cpu_model in the descriptor Create wrote
WrittenCpuModel == ConfIn(fs, RootOf(res)).hardware.cpu_model

\* C12: the cpu_model Create persists is "qemu64" in place of the requested
\* model exactly when arch is x86_64 and the request is the literal "host"; in
\* every other case (aarch64 with "host", x86_64 with another model, "Host")
\* what is persisted is the requested model
C12_CpuModelNormalized ==
    Created =>
      /\ (res.arg.arch = "x86_64" /\ res.arg.cpu_model = "host")
           => WrittenCpuModel = "qemu64"
      /\ ~(res.arg.arch = "x86_64" /\ res.arg.cpu_model = "host")
           => WrittenCpuModel = res.arg.cpu_model
      /\ (WrittenCpuModel # res.arg.cpu_model)
           <=> (res.arg.arch = "x86_64" /\ res.arg.cpu_model = "host")

\* Create of an x86_64 VM with the model "host" wrote "qemu64"
C12_Witness ==
    /\ Created /\ res.arg.arch = "x86_64" /\ res.arg.cpu_model = "host"
    /\ WrittenCpuModel = "qemu64"

\* C15 (as claimed): every descriptor Create persists has network.mode among
\* vmnet-shared, vmnet-bridged, user and display.mode among cocoa, vnc, spice,
\* headless, for every mode string the create command accepts
C15_ModesEnumerated ==
    Created =>
      /\ ConfIn(fs, RootOf(res)).network.mode \in {"vmnet-shared", "vmnet-bridged", "user"}
      /\ ConfIn(fs, RootOf(res)).display.mode \in {"cocoa", "vnc", "spice", "headless"}

(***************************************************************************)
(* The host specification: one call of pick_qemu_bin, of                    *)
(* locate_firmware_from_qemu or of Create on any of a family of hosts that  *)
(* differ in where the hypervisor is installed and in which firmware files  *)
(* each candidate directory holds.                                          *)
(***************************************************************************)
\* a call of pick_qemu_bin on its own
PickOp(arch) ==
    /\ LET r == pick_qemu_bin(arch)
       IN  res' = [InitRes EXCEPT !.op = "pick", !.arg = [NoParams EXCEPT !.arch = arch],
                                  !.ok = r.ok, !.err = r.err, !.ret = r.val]
    /\ UNCHANGED <<fs, live, host, stdin, nextUuid>>

\* a call of locate_firmware_from_qemu on its own
LocateOp(qemu_bin, arch) ==
    /\ LET r == locate_firmware_from_qemu(qemu_bin, arch)
       IN  res' = [InitRes EXCEPT !.op = "locate", !.bin = qemu_bin,
                                  !.arg = [NoParams EXCEPT !.arch = arch],
                                  !.ok = r.ok, !.err = r.err,
                                  !.ret = <<r.code, r.vars>>]
    /\ UNCHANGED <<fs, live, host, stdin, nextUuid>>

AllArchs == SupportedArchs \cup {"riscv64"}

UsrBin(arch) == <<"/", "usr", "bin", ExeName(arch)>>

UsrShare == <<"/", "usr", "share", "qemu">>

StoreQemu2 == Join(NixStore, <<"h2-qemu-8">>)

\* a store entry whose name does not contain "-qemu-"
StoreEdk2 == Join(NixStore, <<"h3-edk2-1">>)

\* where the hypervisors are installed: "link" (the system profile, a symlink
\* into the store), "path" (on the search path only), "cwd" (a file of that
\* name in the working directory, not on the search path), "both" (system
\* profile and search path), "none"
BinLayouts == {"link", "path", "cwd", "both", "none"}

BinFilesOf(layout, arch) ==
    CASE layout = "link" -> { Join(SysBinDir, <<ExeName(arch)>>),
                              Join(StoreQemu, <<"bin", ExeName(arch)>>) }
      [] layout = "path" -> { UsrBin(arch) }
      [] layout = "cwd" -> { <<ExeName(arch)>> }
      [] layout = "both" -> { Join(SysBinDir, <<ExeName(arch)>>), UsrBin(arch) }
      [] OTHER -> {}

\* what a firmware directory holds: "none" (no such directory), "code" (the
\* code files without vars), "p1", "p2", "p3" (the files of the first, second
\* or third pair of each architecture that has one)
FwLayouts == {"none", "code", "p1", "p2"}

PairFilesOf(dir, k) ==
    UNION { IF k <= Len(FirmwarePairs(a))
            THEN { Join(dir, <<FirmwarePairs(a)[k][1]>>),
                   Join(dir, <<FirmwarePairs(a)[k][2]>>) }
            ELSE {} : a \in SupportedArchs }

FwFilesOf(dir, layout) ==
    CASE layout = "code" -> { Join(dir, <<FirmwarePairs(a)[2][1]>>) : a \in SupportedArchs }
      [] layout = "p1" -> PairFilesOf(dir, 1)
      [] layout = "p2" -> PairFilesOf(dir, 2)
      [] layout = "p3" -> PairFilesOf(dir, 3)
      [] OTHER -> {}

FwDirsOf(dir, layout) == IF layout = "none" THEN {} ELSE {dir}

HostOf(bin, s1, sys, prof, s2) ==
    [home |-> TRUE,
     files |-> UNION { BinFilesOf(bin, a) : a \in AllArchs }
                 \cup FwFilesOf(Join(StoreQemu, <<"share", "qemu">>), s1)
                 \cup FwFilesOf(SysShare, sys)
                 \cup FwFilesOf(ProfileShare, prof)
                 \cup FwFilesOf(Join(StoreQemu2, <<"share", "qemu">>), s2)
                 \cup FwFilesOf(UsrShare, "code")
                 \cup FwFilesOf(Join(StoreEdk2, <<"share", "qemu">>), "p1"),
     dirs |-> FwDirsOf(Join(StoreQemu, <<"share", "qemu">>), s1)
                \cup FwDirsOf(SysShare, sys)
                \cup FwDirsOf(ProfileShare, prof)
                \cup FwDirsOf(Join(StoreQemu2, <<"share", "qemu">>), s2)
                \cup {UsrShare, Join(StoreEdk2, <<"share", "qemu">>)},
     which |-> IF bin \in {"path", "both"}
               THEN { <<ExeName(a), UsrBin(a)>> : a \in AllArchs }
               ELSE {},
     links |-> IF bin = "link"
               THEN { <<Join(SysBinDir, <<ExeName(a)>>),
                        Join(StoreQemu, <<"bin", ExeName(a)>>)>> : a \in AllArchs }
               ELSE {},
     store |-> <<"h3-edk2-1", "h1-qemu-9", "h2-qemu-8">>]

Hosts ==
    { HostOf(bin, s1, sys, prof, s2) :
        bin \in BinLayouts, s1 \in FwLayouts, sys \in FwLayouts \cup {"p3"},
        prof \in FwLayouts, s2 \in FwLayouts }

\* the executables a firmware lookup is given: those pick_qemu_bin can return
\* for an architecture, which need not be the one the firmware is wanted for
BinPaths(arch) ==
    { Join(SysBinDir, <<ExeName(arch)>>), UsrBin(arch), <<ExeName(arch)>> }

HostParams ==
    { Params(NameA, arch, "host", None, None, None, None, 4096, None, size) :
        arch \in AllArchs, size \in {None, Some("10G")} }

HostEnvs == { NoEnv, Env(TRUE, "fail", "ok") }

InitHost ==
    /\ host \in Hosts
    /\ live = {}
    /\ stdin = <<>>
    /\ nextUuid = 1
    /\ res = InitRes
    /\ fs = BaseFs

NextHost ==
    \/ \E arch \in AllArchs : res.op = "init" /\ PickOp(arch)
    \/ \E arch \in SupportedArchs, exe \in SupportedArchs : \E b \in BinPaths(exe) :
          res.op = "init" /\ HostIsFile(b) /\ LocateOp(b, arch)
    \/ \E p \in HostParams, e \in HostEnvs : res.op = "init" /\ CreateOp(p, e)

SpecHost == InitHost /\ [][NextHost]_vars
Picked == res.op = "pick"

CreateTried == res.op = "create"

UnknownArch == res.arg.arch \notin {"aarch64", "x86_64"}

\* the disk tool was asked for an image and exited nonzero
DiskToolFailed ==
    /\ IsSome(res.arg.disk_size)
    /\ ~res.existed
    /\ res.env.img = "fail"

\* C13 (as claimed): a Create with an architecture outside {aarch64, x86_64}
\* always fails with the unsupported-arch error.
C13_AsClaimed ==
    (CreateTried /\ UnknownArch) =>
        (~res.ok /\ res.err = <<"Unsupported arch", res.arg.arch>>)

\* C13: for an architecture outside {aarch64, x86_64}, pick_qemu_bin fails with
\* the unsupported-arch error whatever the host has installed; a Create with
\* such an architecture fails and writes no descriptor, with the
\* unsupported-arch error unless its disk tool had already exited nonzero, and
\* then with the disk error; no vm.json on disk names another architecture.
C13_UnsupportedArch ==
    /\ (Picked /\ UnknownArch) =>
          (~res.ok /\ res.err = <<"Unsupported arch", res.arg.arch>>)
    /\ (CreateTried /\ UnknownArch) =>
          /\ ~res.ok
          /\ ~Exists(fs, conf_path(RootOf(res)))
          /\ IF DiskToolFailed
             THEN res.err = <<"qemu-img failed to create disk", res.arg.disk_size[1]>>
             ELSE res.err = <<"Unsupported arch", res.arg.arch>>
    /\ \A n \in Names :
          (IsFile(fs, conf_path(VmRoot(n))) /\ Parses(fs[conf_path(VmRoot(n))].data)) =>
              ConfIn(fs, VmRoot(n)).meta.arch \in {"aarch64", "x86_64"}

C13_Witness ==
    /\ CreateTried /\ UnknownArch /\ ~res.ok
    /\ HostIsFile(UsrBin(res.arg.arch))
    /\ res.err = <<"Unsupported arch", res.arg.arch>>
    /\ IsDir(fs, RootOf(res))
    /\ ~Exists(fs, conf_path(RootOf(res)))
\* the vm.json of directory root in filesystem f parses as a descriptor
HasConf(f, root) == IsFile(f, conf_path(root)) /\ Parses(f[conf_path(root)].data)

\* C14 (as claimed): over any step that is not a successful Delete, the uuid
\* read from a VM's vm.json stays the one it was: a Create or an isRunning on
\* a name whose descriptor exists leaves meta.uuid unchanged.
C14_UuidStable ==
    [][ \A n \in Names :
          ( /\ HasConf(fs, VmRoot(n))
            /\ HasConf(fs', VmRoot(n))
            /\ ~(res'.op = "delete" /\ res'.ok) )
          => ConfIn(fs', VmRoot(n)).meta.uuid = ConfIn(fs, VmRoot(n)).meta.uuid ]_vars
Located == res.op = "locate"

\* the candidate directories and the pairs of the lookup just made
LocDirs == FirmwareDirs(res.bin, res.arg.arch)

LocPairs == FirmwarePairs(res.arg.arch)

\* candidate directory i is a directory and holds both files of pair k
Complete(i, k) ==
    /\ HostIsDir(LocDirs[i])
    /\ HostIsFile(Join(LocDirs[i], <<LocPairs[k][1]>>))
    /\ HostIsFile(Join(LocDirs[i], <<LocPairs[k][2]>>))

PairAt(i, k) ==
    <<Join(LocDirs[i], <<LocPairs[k][1]>>), Join(LocDirs[i], <<LocPairs[k][2]>>)>>

\* C16: a firmware lookup returns the pair of the first candidate directory
\* (derived directory, the two fixed defaults, then the store matches) that is
\* a directory and holds a complete pair, and within it the earliest complete
\* pair in declaration order; no earlier directory holds any complete pair; it
\* fails, with the firmware-not-found error naming the architecture, exactly
\* when no directory x pair combination is complete.
C16_FirstDirFirstPair ==
    Located =>
      /\ Len(LocDirs) >= 3
      /\ LocDirs[2] = <<"/", "run", "current-system", "sw", "share", "qemu">>
      /\ LocDirs[3] = <<"/", "nix", "var", "nix", "profiles", "system", "sw", "share", "qemu">>
      /\ \A i \in 4..Len(LocDirs) : IsPrefix(<<"/", "nix", "store">>, LocDirs[i])
      /\ res.ok =>
            \E i \in 1..Len(LocDirs), k \in 1..Len(LocPairs) :
               /\ Complete(i, k)
               /\ res.ret = PairAt(i, k)
               /\ \A i2 \in 1..(i - 1), k2 \in 1..Len(LocPairs) : ~Complete(i2, k2)
               /\ \A k2 \in 1..(k - 1) : ~Complete(i, k2)
      /\ ~res.ok <=>
            \A i \in 1..Len(LocDirs), k \in 1..Len(LocPairs) : ~Complete(i, k)
      /\ ~res.ok =>
            res.err = <<"UEFI firmware not found in Nix paths", res.arg.arch>>

\* a lookup where directory order beat pair order: the pair returned is a later
\* pair of an earlier directory although a later directory holds an earlier pair
C16_Witness ==
    /\ Located /\ res.ok
    /\ \E i \in 1..Len(LocDirs), k \in 2..Len(LocPairs) :
          /\ res.ret = PairAt(i, k)
          /\ i > 1
          /\ \E j \in (i + 1)..Len(LocDirs) : Complete(j, 1) /\ LocDirs[j] # LocDirs[i]
\* the Create just made reached its binary lookup, which found a binary, and
\* the firmware lookup for that binary fails
BinFoundFirmwareMissing ==
    /\ CreateTried /\ ~UnknownArch /\ ~DiskToolFailed
    /\ pick_qemu_bin(res.arg.arch).ok
    /\ ~locate_firmware_from_qemu(pick_qemu_bin(res.arg.arch).val, res.arg.arch).ok

DefaultFirmware ==
    IF res.arg.arch = "aarch64"
    THEN [code |-> <<"/", "run", "current-system", "sw", "share", "qemu",
                     "edk2-aarch64-code.fd">>,
          vars_template |-> <<"/", "run", "current-system", "sw", "share", "qemu",
                              "edk2-arm-vars.fd">>]
    ELSE [code |-> <<"/", "run", "current-system", "sw", "share", "qemu",
                     "OVMF_CODE.fd">>,
          vars_template |-> <<"/", "run", "current-system", "sw", "share", "qemu",
                              "OVMF_VARS.fd">>]

\* C17: a Create whose hypervisor binary is found but whose firmware lookup
\* fails succeeds all the same, and the descriptor it writes names the fixed
\* default firmware paths of its architecture, whether or not those files exist.
C17_FirmwareFallback ==
    BinFoundFirmwareMissing =>
      /\ res.ok
      /\ HasConf(fs, RootOf(res))
      /\ ConfIn(fs, RootOf(res)).firmware = DefaultFirmware

C17_Witness ==
    /\ BinFoundFirmwareMissing /\ res.ok
    /\ ConfIn(fs, RootOf(res)).firmware = DefaultFirmware
    /\ ~HostIsFile(DefaultFirmware.code)
    /\ ~HostIsFile(DefaultFirmware.vars_template)
\* the fixed absolute candidate of the architecture just looked up
SysCandidate ==
    <<"/", "run", "current-system", "sw", "bin">> \o <<"qemu-system-" \o res.arg.arch>>

\* C18 (as claimed): for a supported architecture pick_qemu_bin returns the
\* fixed absolute candidate if it is a regular file, otherwise the bare name as
\* resolved by the search path if that is a regular file, and fails with the
\* binary-not-found error naming the architecture otherwise; every path it
\* returns is absolute.
C18_PickOrderAbsolute ==
    (Picked /\ ~UnknownArch) =>
      /\ HostIsFile(SysCandidate) => (res.ok /\ res.ret = SysCandidate)
      /\ res.ok => HostIsFile(res.ret)
      /\ ~res.ok => res.err = <<"qemu-system not found (Nix)", res.arg.arch>>
      /\ res.ok => IsAbsolute(res.ret)
\* the disk path of the Create step being taken, resolved under its VM root
DiskPathOf(r) ==
    IF IsSome(r.arg.disk)
    THEN (IF IsAbsolute(r.arg.disk[1]) THEN r.arg.disk[1]
          ELSE RootOf(r) \o r.arg.disk[1])
    ELSE RootOf(r) \o <<"disk.qcow2">>

\* the Create step being taken got as far as its disk step: the storage root
\* was resolved and the VM root directory created
ReachesDisk == res'.op = "create" /\ host.home /\ res'.env.mkdir

\* g is f with directory root (and its missing ancestors) added, nothing else
OnlyRootAdded(f, g, root) ==
    /\ IsDir(g, root)
    /\ DOMAIN f \subseteq DOMAIN g
    /\ \A q \in DOMAIN g :
          IF q \in DOMAIN f THEN g[q] = f[q]
          ELSE IsPrefix(q, root) /\ g[q].kind = "dir"

\* C19: a Create that reaches its disk step runs the disk tool exactly when a
\* size was requested and nothing exists at the disk path resolved under the VM
\* root; if the tool then exits nonzero the Create fails with the disk error
\* naming the requested size, no descriptor is written, and the VM root
\* directory created by this Create stays.
C19_DiskToolIffSizeAndNoDisk ==
    [][ ReachesDisk =>
          /\ res'.img <=> (IsSome(res'.arg.disk_size) /\ ~Exists(fs, DiskPathOf(res')))
          /\ (res'.img /\ res'.env.img = "fail") =>
                /\ ~res'.ok
                /\ res'.err = <<"qemu-img failed to create disk", res'.arg.disk_size[1]>>
                /\ OnlyRootAdded(fs, fs', RootOf(res')) ]_vars

C19_Witness ==
    /\ CreateTried /\ res.img /\ res.env.img = "fail" /\ ~res.existed
    /\ ~res.ok
    /\ res.err = <<"qemu-img failed to create disk", res.arg.disk_size[1]>>
    /\ IsDir(fs, RootOf(res))
    /\ ~Exists(fs, conf_path(RootOf(res)))

\* C20: a Create that reaches its disk step with no size requested and nothing
\* at the disk path does not fail for want of a disk: if the hypervisor binary
\* is found and the descriptor can be written, it succeeds, vm.json holds the
\* descriptor, the disk tool is not run and there is still nothing at the disk
\* path.
C20_NoDiskNoSizeProceeds ==
    [][ ( /\ ReachesDisk
          /\ ~IsSome(res'.arg.disk_size)
          /\ ~Exists(fs, DiskPathOf(res'))
          /\ pick_qemu_bin(res'.arg.arch).ok
          /\ res'.env.save = "ok" )
        => /\ res'.ok
           /\ ~res'.img
           /\ HasConf(fs', RootOf(res'))
           /\ ConfIn(fs', RootOf(res')).meta.name = res'.arg.name
           /\ ~Exists(fs', DiskPathOf(res')) ]_vars

C20_Witness ==
    /\ CreateTried /\ res.ok /\ ~res.img
    /\ ~IsSome(res.arg.disk_size)
    /\ HasConf(fs, RootOf(res))
    /\ ~Exists(fs, DiskPathOf(res))
WrittenDisk == ConfIn(fs, RootOf(res)).paths.disk

\* C21: the paths.disk a successful Create persists is the --disk path as it
\* was given, relative or absolute, or disk.qcow2 when none was given; a
\* relative path is never persisted in its root-resolved form, which is only
\* where the disk tool puts the image.
C21_DiskPersistedAsGiven ==
    Created =>
      /\ IsSome(res.arg.disk) => WrittenDisk = res.arg.disk[1]
      /\ ~IsSome(res.arg.disk) => WrittenDisk = <<"disk.qcow2">>
      /\ ~IsAbsolute(WrittenDisk) => WrittenDisk # DiskPathOf(res)
      /\ res.img => IsFile(fs, DiskPathOf(res))

C21_Witness ==
    /\ Created /\ res.img
    /\ res.arg.disk = <<<<"my.qcow2">>>>
    /\ WrittenDisk = <<"my.qcow2">>
    /\ IsFile(fs, RootOf(res) \o <<"my.qcow2">>)
(***************************************************************************)
(* The path specification: one call of resolve_under_root or of conf_path   *)
(* on any root and path of up to MaxPathLen components.                     *)
(***************************************************************************)
PathComponents == {"/", "d", "..", "vm.json"}

\* the paths of up to MaxPathLen components; "/" can only come first
PathsUpTo ==
    { q \in UNION { [1..n -> PathComponents] : n \in 0..MaxPathLen } :
        \A i \in 2..Len(q) : q[i] # "/" }

ResolveOp(root, p) ==
    /\ res' = [InitRes EXCEPT !.op = "resolve", !.root = root, !.path = p,
                              !.ret = resolve_under_root(root, p)]
    /\ UNCHANGED <<fs, live, host, stdin, nextUuid>>

ConfPathOp(root) ==
    /\ res' = [InitRes EXCEPT !.op = "conf_path", !.root = root,
                              !.ret = conf_path(root)]
    /\ UNCHANGED <<fs, live, host, stdin, nextUuid>>

InitPaths ==
    /\ host = HostBare
    /\ live = {}
    /\ stdin = <<>>
    /\ nextUuid = 1
    /\ res = InitRes
    /\ fs = BaseFs

NextPaths ==
    \/ \E root \in PathsUpTo, p \in PathsUpTo : ResolveOp(root, p)
    \/ \E root \in PathsUpTo : ConfPathOp(root)

SpecPaths == InitPaths /\ [][NextPaths]_vars

\* C22: resolve_under_root(root, p) is p when p is absolute and root joined
\* with p when p is relative, and conf_path(root) is root joined with vm.json,
\* for every root and p.
C22_ResolveUnderRoot ==
    /\ res.op = "resolve" =>
          /\ (Len(res.path) > 0 /\ res.path[1] = "/") => res.ret = res.path
          /\ ~(Len(res.path) > 0 /\ res.path[1] = "/") => res.ret = res.root \o res.path
    /\ res.op = "conf_path" => res.ret = res.root \o <<"vm.json">>

C22_Witness ==
    /\ res.op = "resolve"
    /\ res.root = <<"/", "d">>
    /\ res.path = <<"/", "vm.json">>
    /\ res.ret = <<"/", "vm.json">>
(***************************************************************************)
(* The descriptor specification: save_conf of any of a family of            *)
(* descriptors followed by load_conf_from_dir, and Create followed by       *)
(* load_conf.                                                               *)
(***************************************************************************)
BaseConfig ==
    BuildConfig(DemoParams, NoEnv, ExtDir, 1, <<1, 4, 1>>,
                get_default_firmware_paths("aarch64"))

\* descriptors differing in every kind of member: paths (absolute and
\* relative), text, numbers and flags; paths.root is a directory of BaseFs
Descriptors ==
    { [BaseConfig EXCEPT !.paths.root = root, !.paths.disk = disk,
                         !.meta.name = name, !.hardware.sockets = skt,
                         !.display.vnc.use_unix = ux, !.network.mode = nm] :
        root \in {ExtDir, HomeDir, <<"/">>}, disk \in {DefaultDisk, ExtDisk},
        name \in {NameA, NameNested}, skt \in {0, 1}, ux \in BOOLEAN,
        nm \in {"user", ""} }

SaveOp(d) ==
    /\ LET r == save_conf(fs, d, "ok")
       IN  /\ fs' = r.fs
           /\ res' = [InitRes EXCEPT !.op = "save", !.root = d.paths.root,
                                     !.ok = r.ok, !.err = r.err, !.ret = d]
    /\ UNCHANGED <<live, host, stdin, nextUuid>>

LoadDirOp(dir) ==
    /\ LET r == load_conf_from_dir(fs, dir)
       IN  res' = [InitRes EXCEPT !.op = "loaddir", !.root = dir,
                                  !.ok = r.ok, !.err = r.err,
                                  !.ret = IF r.ok THEN ConfIn(fs, dir) ELSE "none"]
    /\ UNCHANGED <<fs, live, host, stdin, nextUuid>>

LoadOp(n) ==
    /\ LET r == load_conf(fs, n)
       IN  res' = [InitRes EXCEPT !.op = "load", !.name = n,
                                  !.ok = r.ok, !.err = r.err,
                                  !.ret = IF r.ok THEN LoadedConf(fs, n) ELSE "none"]
    /\ UNCHANGED <<fs, live, host, stdin, nextUuid>>

InitConf ==
    /\ host = HostBoth
    /\ live = {}
    /\ stdin = <<>>
    /\ nextUuid = 1
    /\ res = InitRes
    /\ fs = BaseFs

NextConf ==
    \/ \E d \in Descriptors : res.op = "init" /\ SaveOp(d)
    \/ \E dir \in {ExtDir, HomeDir, <<"/">>} : res.op = "save" /\ LoadDirOp(dir)
    \/ \E p \in DiskSlice \cup CpuSlice : CreateOnce(p)
    \/ \E n \in {NameA, NameNested} : res.op = "create" /\ LoadOp(n)

SpecConf == InitConf /\ [][NextConf]_vars

\* the descriptor the Create recorded in res assembled
BuiltBy(r, uuid) ==
    BuildConfig(r.arg, r.env, VmRoot(r.name), uuid, topology(r.arg),
                firmware_for(pick_qemu_bin(r.arg.arch).val, r.arg.arch))

NameInside == <<"a.qvm", "b">>

PairNames == {NameA, NameB, NameInside}

\* each name with no disk at all, and with a disk image made outside its root
PairParams ==
    { Params(n, "aarch64", "host", None, None, None, None, 2048, ds[1], ds[2]) :
        n \in PairNames, ds \in { <<None, None>>, <<Some(ExtDisk), Some("10G")>> } }

\* a marker that is not a process id
PairMarkers == {<<"x">>}

InitPair ==
    /\ fs = BaseFs
    /\ live = {}
    /\ host = HostNix
    /\ stdin = <<>>
    /\ nextUuid = 1
    /\ res = InitRes

NextPair ==
    \/ \E p \in PairParams : CreateOp(p, NoEnv)
    \/ \E n \in PairNames, force \in BOOLEAN : DeleteOp(n, force, TRUE)
    \/ \E n \in PairNames : IsRunningOp(n, TRUE)
    \/ \E n \in PairNames, text \in PairMarkers : WriteMarker(n, text)
    \/ \E line \in LifecycleInputs : OperatorTypes(line)

SpecPair == InitPair /\ [][NextPair]_vars
\* the step being taken is a Delete of n that reached its removal step
Removes(n) == res'.op = "delete" /\ res'.name = n /\ res'.ok

\* C24 (as claimed): a descriptor once written stays until a Delete of its own
\* name removes it: over every other step vm.json still exists, and unless the
\* step is a Create of the same name it is unchanged; an isRunning changes
\* nothing but the vm.pid marker of its VM.
C24_DescriptorPersists ==
    [][ /\ \A n \in PairNames :
              ( HasConf(fs, VmRoot(n)) /\ ~Removes(n) )
              => /\ IsFile(fs', conf_path(VmRoot(n)))
                 /\ ~(res'.op = "create" /\ res'.name = n)
                       => fs'[conf_path(VmRoot(n))] = fs[conf_path(VmRoot(n))]
        /\ res'.op = "is_running"
              => /\ DOMAIN fs' \subseteq DOMAIN fs
                 /\ \A q \in DOMAIN fs :
                       q # PidFile(RootOf(res')) => (q \in DOMAIN fs' /\ fs'[q] = fs[q]) ]_vars
\* the step being taken is a Create on a name whose VM root is already there
Recreates == res'.op = "create" /\ res'.existed

\* nothing stands in the way of the Create being taken but the existing root
Unhindered ==
    /\ res'.arg.arch \in {"aarch64", "x86_64"}
    /\ pick_qemu_bin(res'.arg.arch).ok
    /\ res'.env.mkdir /\ res'.env.save = "ok"
    /\ (res'.env.img = "ok" \/ ~res'.img)

\* C25: a Create on a name whose VM root exists is not refused for that: it
\* succeeds when nothing else fails, whether or not the VM is running, and then
\* vm.json holds the new descriptor; every entry that was in the filesystem,
\* the disk image and the vm.pid marker among them, is left as it was except
\* vm.json, and the disk tool is not run when something is at the disk path.
C25_RecreateReuses ==
    [][ Recreates =>
          /\ Unhindered => res'.ok
          /\ res'.ok =>
                /\ HasConf(fs', RootOf(res'))
                /\ ConfIn(fs', RootOf(res')).meta.uuid = nextUuid
                /\ ConfIn(fs', RootOf(res')).hardware.mem_mb = res'.arg.mem
          /\ \A q \in DOMAIN fs :
                q # RootOf(res') \o <<"vm.json">> => (q \in DOMAIN fs' /\ fs'[q] = fs[q])
          /\ Exists(fs, DiskPathOf(res')) => ~res'.img ]_vars

\* a Create that went through on a VM that is running and has its disk
C25_Witness ==
    /\ CreateTried /\ res.existed /\ res.ok
    /\ IsSome(res.arg.disk_size) /\ ~res.img
    /\ IsFile(fs, DiskPathOf(res))
    /\ IsFile(fs, PidFile(RootOf(res)))
    /\ fs[PidFile(RootOf(res))].data \in live
    /\ ConfIn(fs, RootOf(res)).meta.uuid = 2
\* the canonical path of the executable the lookup was given
BinReal ==
    IF \E l \in host.links : l[1] = res.bin
    THEN (CHOOSE l \in host.links : l[1] = res.bin)[2]
    ELSE res.bin

\* the canonical path ends in bin/<exe-name> for the architecture asked for
HasBinExeSuffix ==
    /\ Len(BinReal) >= 3
    /\ BinReal[Len(BinReal) - 1] = "bin"
    /\ BinReal[Len(BinReal)] = "qemu-system-" \o res.arg.arch

\* the derived directory as the claim gives it
ClaimedDerived ==
    IF HasBinExeSuffix
    THEN SubSeq(BinReal, 1, Len(BinReal) - 2) \o <<"share", "qemu">>
    ELSE IF Len(res.bin) >= 3
    THEN SubSeq(res.bin, 1, Len(res.bin) - 2) \o <<"share", "qemu">>
    ELSE <<"/", "run", "current-system", "sw", "share", "qemu">>

\* C26 (as claimed): the derived directory of a firmware lookup is the canonical
\* executable path with bin/<exe-name> replaced by share/qemu when it ends so,
\* and otherwise, an executable named for another architecture included, the
\* executable's grandparent joined with share/qemu, or the fixed default when
\* there is no grandparent; it is never the executable path itself.
C26_DerivedDir ==
    Located =>
      /\ LocDirs[1] = ClaimedDerived
      /\ LocDirs[1] # res.bin
      /\ LocDirs[1] # BinReal
\* the VM root of the Delete being taken is not there
Missing == ~Exists(fs, RootOf(res'))

\* the marker of the VM being deleted holds the id of a live process, and the
\* process table can be queried
MarkedLive ==
    /\ IsFile(fs, PidFile(RootOf(res')))
    /\ fs[PidFile(RootOf(res'))].data \in live
    /\ res'.psOk

\* C27: Delete checks existence, liveness, the descriptor, the confirmation, in
\* that order, and reports the first check that fails: a missing root gives
\* the not-found error; a running VM gives the VM-is-running error whatever
\* state vm.json is in; the operator is prompted only when the root exists, the
\* VM is not running and vm.json loads; and the root is removed only after all
\* of these and a confirmation or force.
C27_DeleteCheckOrder ==
    [][ (DeleteStep /\ QvmHomeOk) =>
          /\ Missing =>
                /\ ~res'.ok /\ ~res'.prompted /\ fs' = fs
                /\ res'.err = <<"VM not found", res'.name, <<"/", "home", "u", "qvm">>>>
          /\ (~Missing /\ MarkedLive) =>
                /\ ~res'.ok /\ ~res'.prompted /\ fs' = fs
                /\ res'.err = <<"VM is currently running", res'.name>>
          /\ res'.prompted =>
                /\ ~Missing /\ ~MarkedLive /\ ~res'.force
                /\ ~ConfBroken(fs, RootOf(res'))
          /\ (~Missing /\ ~Exists(fs', RootOf(res'))) =>
                /\ ~MarkedLive
                /\ ~ConfBroken(fs, RootOf(res'))
                /\ res'.force \/ res'.prompted ]_vars

\* a Delete refused as running although vm.json is missing or does not parse
C27_Witness ==
    /\ res.op = "delete" /\ ~res.ok
    /\ res.err = <<"VM is currently running", res.name>>
    /\ ConfBroken(fs, RootOf(res))
    /\ fs[PidFile(RootOf(res))].data \in live
\* the Create just made failed at its binary lookup
FailedAtBinary ==
    /\ CreateTried /\ ~res.ok /\ ~res.existed
    /\ \/ res.err = <<"Unsupported arch", res.arg.arch>>
       \/ res.err = <<"qemu-system not found (Nix)", res.arg.arch>>

\* C28: after a Create on an unused name that failed with the unsupported-arch
\* or the binary-not-found error, the VM root is a directory, it holds the new
\* disk image if a size was requested and nothing else, and there is no
\* vm.json in it.
C28_RootAndDiskBeforeBinary ==
    FailedAtBinary =>
      /\ IsDir(fs, RootOf(res))
      /\ ~Exists(fs, RootOf(res) \o <<"vm.json">>)
      /\ IsSome(res.arg.disk_size) <=> IsFile(fs, DiskPathOf(res))
      /\ IsSome(res.arg.disk_size) => (res.img /\ res.env.img = "ok")
      /\ \A q \in DOMAIN fs :
            (IsPrefix(RootOf(res), q) /\ q # RootOf(res)) => q = DiskPathOf(res)

C28_Witness ==
    /\ FailedAtBinary
    /\ res.err = <<"qemu-system not found (Nix)", res.arg.arch>>
    /\ IsDir(fs, RootOf(res))
    /\ IsFile(fs, RootOf(res) \o <<"disk.qcow2">>)
    /\ ~Exists(fs, RootOf(res) \o <<"vm.json">>)
\* the step being taken is a Delete that removed its VM root
Removed == DeleteStep /\ res'.ok /\ Exists(fs, RootOf(res')) /\ ~Exists(fs', RootOf(res'))

\* C29 (as claimed): a Delete that removes a VM removes the tree under its root
\* and nothing else: every other entry stays as it was, the disk image outside
\* the root included, and the roots of the other names are unchanged.
C29_DeleteRemovesOnlyOwnTree ==
    [][ Removed =>
          /\ \A q \in DOMAIN fs :
                IF IsPrefix(RootOf(res'), q) THEN q \notin DOMAIN fs'
                ELSE q \in DOMAIN fs' /\ fs'[q] = fs[q]
          /\ DOMAIN fs' \subseteq DOMAIN fs
          /\ Exists(fs, <<"/", "ext", "d.qcow2">>) => Exists(fs', <<"/", "ext", "d.qcow2">>)
          /\ \A n \in PairNames \ {res'.name} : \A q \in DOMAIN fs :
                IsPrefix(VmRoot(n), q) => (q \in DOMAIN fs' /\ fs'[q] = fs[q]) ]_vars
(***************************************************************************)
(* main.rs: the binary's own create (the body of Cmd::Create) and delete_vm. *)
(* The helpers the binary calls (qvm_home, find_vm_dir, is_vm_running,       *)
(* load_conf, save_conf, resolve_under_root, pick_qemu_bin,                  *)
(* locate_firmware_from_qemu; main.rs 256-340 and 419-514) have the text of  *)
(* their library counterparts, so the operators above stand for both.        *)
(***************************************************************************)
\* the outcome of the binary's create: what main returns and the files it leaves
MainOut(ok, err, f) == [ok |-> ok, err |-> err, fs |-> f]

\* a fallback that names the aarch64 firmware on every architecture
MainFallbackEdk2(arch) ==
    [code |-> <<"/", "run", "current-system", "sw", "share", "qemu", "edk2-aarch64-code.fd">>,
     vars |-> <<"/", "run", "current-system", "sw", "share", "qemu", "edk2-arm-vars.fd">>]

\* the closure of unwrap_or_else in Cmd::Create: the paths are written out
MainFallback(arch) ==
    IF arch = "aarch64"
    THEN [code |-> <<"/", "run", "current-system", "sw", "share", "qemu", "edk2-aarch64-code.fd">>,
          vars |-> <<"/", "run", "current-system", "sw", "share", "qemu", "edk2-arm-vars.fd">>]
    ELSE [code |-> <<"/", "run", "current-system", "sw", "share", "qemu", "OVMF_CODE.fd">>,
          vars |-> <<"/", "run", "current-system", "sw", "share", "qemu", "OVMF_VARS.fd">>]

\* let cfg = VmConfig { .. } of Cmd::Create
MainConfig(p, e, root, uuid, fw) ==
    LET cpu == IF p.arch = "x86_64" /\ p.cpu_model = "host" THEN "qemu64"
               ELSE p.cpu_model
        skt == IF IsSome(p.sockets) \/ IsSome(p.cores) \/ IsSome(p.threads)
               THEN UnwrapOr(p.sockets, 1) ELSE 1
        cor == IF IsSome(p.sockets) \/ IsSome(p.cores) \/ IsSome(p.threads)
               THEN UnwrapOr(p.cores, 1)
               ELSE IF IsSome(p.smp) THEN Max(p.smp[1], 1) ELSE 4
        thr == IF IsSome(p.sockets) \/ IsSome(p.cores) \/ IsSome(p.threads)
               THEN UnwrapOr(p.threads, 1) ELSE 1
    IN  [meta |-> [version |-> 1, generated |-> e.now, name |-> p.name,
                   arch |-> p.arch, uuid |-> uuid],
         paths |-> [root |-> root, disk |-> UnwrapOr(p.disk, <<"disk.qcow2">>),
                    efi_vars |-> <<"efi_vars.fd">>],
         hardware |-> [cpu_model |-> cpu, sockets |-> skt, cores |-> cor,
                       threads |-> thr, mem_mb |-> p.mem,
                       machine |-> IF p.arch = "aarch64" THEN "virt,gic-version=3"
                                   ELSE "q35",
                       accel |-> IF p.arch = "aarch64" THEN "hvf" ELSE "kvm",
                       mac |-> <<"52", "54", "00">> \o e.mac],
         firmware |-> [code |-> fw.code, vars_template |-> fw.vars],
         network |-> [mode |-> p.net_mode, bridge_if |-> p.bridge_if,
                      forwards |-> [ssh |-> 0, meye |-> 0]],
         display |-> [mode |-> p.display_mode,
                      vnc |-> [use_unix |-> p.vnc_unix, host |-> p.vnc_host,
                               display |-> p.vnc_display,
                               sock |-> UnwrapOr(p.vnc_sock, <<"vnc.sock">>)],
                      spice |-> [use_unix |-> p.spice_unix, addr |-> p.spice_addr,
                                 port |-> p.spice_port,
                                 disable_ticketing |-> p.spice_disable_ticketing,
                                 sock |-> UnwrapOr(p.spice_sock, <<"spice.sock">>)]]]

\* Cmd::Create from `let qemu_bin = pick_qemu_bin(&arch)?` on
MainCreateSave(f2, p, e, uuid, root, bin, fw) ==
    IF ~bin.ok THEN MainOut(FALSE, bin.err, f2)
    ELSE LET saved == save_conf(f2, MainConfig(p, e, root, uuid,
                                               IF fw.ok THEN [code |-> fw.code, vars |-> fw.vars]
                                               ELSE MainFallback(p.arch)), e.save)
         IN  MainOut(saved.ok, saved.err, saved.fs)

MainCreateResolve(f2, p, e, uuid, root, bin) ==
    MainCreateSave(f2, p, e, uuid, root, bin,
                   IF bin.ok THEN locate_firmware_from_qemu(bin.val, p.arch)
                   ELSE [ok |-> FALSE])

\* Cmd::Create from `if let Some(sz) = &disk_size` on, the root being there (f1)
MainCreateDisk(f1, p, e, uuid, root, disk_abs, img) ==
    IF IsSome(p.disk_size)
    THEN IF ~Exists(f1, disk_abs)
         THEN IF img = "nospawn" THEN MainOut(FALSE, ErrIo("qemu-img"), f1)
              ELSE IF img # "ok" THEN MainOut(FALSE, ErrDisk(p.disk_size[1]), f1)
              ELSE MainCreateResolve(WriteFile(f1, disk_abs, <<"qcow2", p.disk_size[1]>>),
                                     p, e, uuid, root, pick_qemu_bin(p.arch))
         ELSE MainCreateResolve(f1, p, e, uuid, root, pick_qemu_bin(p.arch))
    ELSE MainCreateResolve(f1, p, e, uuid, root, pick_qemu_bin(p.arch))

MainCreateRoot(f1, p, e, uuid, root, disk_abs) ==
    MainCreateDisk(f1, p, e, uuid, root, disk_abs, ImgOutcome(f1, disk_abs, e))

\* the body of Cmd::Create
main_create(f, p, e, uuid) ==
    IF ~QvmHomeOk THEN MainOut(FALSE, ErrNoHome, f)
    ELSE IF ~e.mkdir THEN MainOut(FALSE, ErrIo("mkdir"), f)
    ELSE MainCreateRoot(CreateDirAll(f, Join(QvmHome, NameDotQvm(p.name))), p, e, uuid,
                        Join(QvmHome, NameDotQvm(p.name)),
                        resolve_under_root(Join(QvmHome, NameDotQvm(p.name)),
                                           UnwrapOr(p.disk, <<"disk.qcow2">>)))

\* main.rs delete_vm from `if is_vm_running(name)?` on
MainDeleteFound(run, vm_dir, name, force, input) ==
    IF run.ret = "err" THEN MainOut(FALSE, run.err, run.fs)
    ELSE IF run.ret = "true" THEN MainOut(FALSE, ErrRunning(name), run.fs)
    ELSE IF ~load_conf(run.fs, name).ok
         THEN MainOut(FALSE, load_conf(run.fs, name).err, run.fs)
    ELSE IF ~force
              /\ ToLowercase(Trim(input)) \notin { <<"y">>, <<"y", "e", "s">> }
         THEN MainOut(TRUE, NoErr, run.fs)
    ELSE MainOut(TRUE, NoErr, RemoveDirAll(run.fs, vm_dir))

\* main.rs delete_vm
main_delete_vm(f, name, force, input, psOk) ==
    IF ~find_vm_dir(f, name).ok THEN MainOut(FALSE, find_vm_dir(f, name).err, f)
    ELSE MainDeleteFound(is_vm_running(f, name, psOk), find_vm_dir(f, name).val,
                         name, force, input)

(***************************************************************************)
(* The binary against the library: the library's operations run on a host   *)
(* that has one hypervisor with its firmware and one without, or none, and  *)
(* every create and delete is compared with what main.rs does from the same *)
(* state with the same inputs and answers.                                  *)
(***************************************************************************)
BinaryHosts == {HostBoth, HostBare}

BinaryParams ==
    { Params(NameA, arch, "host", None, None, None, None, 2048, None, size) :
        arch \in {"aarch64", "x86_64", "riscv64"}, size \in {None, Some("10G")} }

InitBinary ==
    /\ fs = BaseFs
    /\ live = {}
    /\ host \in BinaryHosts
    /\ stdin = <<>>
    /\ nextUuid = 1
    /\ res = InitRes

NextBinary ==
    \/ \E p \in BinaryParams, e \in LifecycleEnvs : CreateOp(p, e)
    \/ \E force \in BOOLEAN, psOk \in LifecyclePs : DeleteOp(NameA, force, psOk)
    \/ \E psOk \in LifecyclePs : IsRunningOp(NameA, psOk)
    \/ \E text \in LifecycleMarkers : WriteMarker(NameA, text)
    \/ \E pid \in LifecyclePids : ProcStart(pid)
    \/ \E pid \in LifecyclePids : ProcExit(pid)
    \/ \E line \in LifecycleInputs : OperatorTypes(line)

SpecBinary == InitBinary /\ [][NextBinary]_vars

\* the step is a create of the library and main.rs, run on the state before it
\* with the same parameters, answers and uuid, ends the same way
CreateAgrees ==
    res'.op = "create" =>
        /\ main_create(fs, res'.arg, res'.env, nextUuid).ok = res'.ok
        /\ main_create(fs, res'.arg, res'.env, nextUuid).err = res'.err
        /\ main_create(fs, res'.arg, res'.env, nextUuid).fs = fs'

\* the same for a delete, the operator's line being the one at the terminal
DeleteAgrees ==
    res'.op = "delete" =>
        /\ main_delete_vm(fs, res'.name, res'.force, stdin, res'.psOk).ok = res'.ok
        /\ main_delete_vm(fs, res'.name, res'.force, stdin, res'.psOk).err = res'.err
        /\ main_delete_vm(fs, res'.name, res'.force, stdin, res'.psOk).fs = fs'

\* C30: from the same filesystem, with the same inputs, tool answers and
\* operator line, the create and delete of main.rs return the same success or
\* error as the library's and leave the same filesystem (uuid, timestamp and
\* MAC taken as given).
C30_BinaryMatchesLibrary == [][CreateAgrees /\ DeleteAgrees]_vars

\* a create that fell back on the default firmware paths has gone through
C30_Witness ==
    /\ res.op = "create" /\ res.ok /\ res.arg.arch = "x86_64"
    /\ LoadedConf(fs, res.name).firmware.code = Join(SysShare, <<"OVMF_CODE.fd">>)
====
